---- MODULE Spec2Model ----
(***************************************************************************)
(* A model of eve_chainkills: the zKillboard feed subscriber                *)
(* (ChainKillChecker), its classification of kill records, the ESI         *)
(* enrichment (KillDetails), the Discord embed composer (KillEmbed) and the *)
(* webhook dispatcher.                                                      *)
(*                                                                          *)
(* Strings the program formats with fmt.Sprintf are kept as tuples of the   *)
(* formatted pieces; names returned by ESI are strings.                     *)
(***************************************************************************)
EXTENDS Integers, Sequences, FiniteSets, TLC

VARIABLES
    config,                 \* the immutable *AppConfig the checker was built with
    systems,                \* ck.systems
    mapCharacters,          \* ck.mapCharacters
    lastUpdateTime,         \* ck.lastUpdateTime, in clock ticks
    lastDiscordStatusTime,  \* ck.lastDiscordStatusTime, in clock ticks
    now,                    \* the wall clock, in ticks
    phase,                  \* "new" until StartListening has run, then "listening"
                            \* or, while a frame's handling is looked at, "handled"
    obs,                    \* what the handling of the current frame did
    mu,                     \* ck.mu: "free" or the thread that holds it
    wsConn,                 \* ck.wsConn: 0 (nil) or the id of a connection
    wsCancelFunc,           \* ck.wsCancelFunc: 0 (nil) or the id of a context
    lpc,                    \* where connectAndListenZKill is
    loopCtx,                \* its local ctx, cancel: the id of a context
    loopConn,               \* its local conn: the id of a connection, 0 before a dial
    dials,                  \* the dials made so far; the ids of contexts and connections
    connOpen,               \* the connections that are open
    cancelled,              \* the contexts that are cancelled
    cpc,                    \* where each caller of Close is
    sleepLeft,              \* seconds left of the loop's time.Sleep(reconnectDelay)
    exitLeft,               \* seconds left of main's time.Sleep before it returns
    exited,                 \* main has returned: the process is gone
    inflight,               \* the handler goroutines that have not returned
    fault,                  \* a nil connection or cancel function was called
    sinceClose,             \* a Close returned; a dial begun, a connection opened after it;
                            \* a handler started after a call of Close began
    subscribed,             \* the sub message was written on the connection of loopConn
    handlers,               \* the handler goroutines that run side by side: where each
                            \* is, its frame, its locals and what it read and sent
    sysGen,                 \* the refresh that wrote ck.systems: 0 for StartListening,
                            \* else the handler whose updateSystems wrote it
    crashed                 \* a handler panicked: the process is gone

cacheVars == <<systems, mapCharacters, lastUpdateTime, lastDiscordStatusTime>>

connVars == <<mu, wsConn, wsCancelFunc, lpc, loopCtx, loopConn, dials, connOpen,
              cancelled, cpc, sleepLeft, exitLeft, exited, inflight, fault, sinceClose,
              subscribed>>

raceVars == <<handlers, sysGen, crashed>>

vars == <<config, systems, mapCharacters, lastUpdateTime, lastDiscordStatusTime,
          now, phase, obs, mu, wsConn, wsCancelFunc, lpc, loopCtx, loopConn, dials,
          connOpen, cancelled, cpc, sleepLeft, exitLeft, exited, inflight, fault,
          sinceClose, subscribed, handlers, sysGen, crashed>>

----------------------------------------------------------------------------
(* Bounds of the model *)

\* the longest attacker list of a feed frame
MaxAttackers == 2

\* the last clock tick
MaxTime == 3

\* clock ticks per minute: the clock is finer than the minutes the code truncates to
TicksPerMinute == 2

\* the most dials of the connect loop
MaxDials == 2

\* the most handler goroutines in flight
MaxHandlers == 2

\* the handler goroutines that run side by side
MaxRacers == 2

----------------------------------------------------------------------------
(* Small helpers over sequences *)

Range(s) == {s[i] : i \in 1..Len(s)}

SeqsUpTo(S, n) == UNION {[1..k -> S] : k \in 0..n}

\* slices.Contains
Contains(s, v) == \E i \in 1..Len(s) : s[i] = v

Min(S) == CHOOSE x \in S : \A y \in S : x <= y

----------------------------------------------------------------------------
(* The data model (model.go) *)

\* Victim with every field zero
ZeroVictim ==
    [AllianceID |-> 0, CorporationID |-> 0, CharacterID |-> 0, ShipTypeID |-> 0]

\* ZKB with every field zero
ZeroZKB ==
    [Hash |-> "", FittedValue |-> 0, DroppedValue |-> 0, DestroyedValue |-> 0,
     TotalValue |-> 0, Points |-> 0, NPC |-> FALSE, Solo |-> FALSE, Awox |-> FALSE]

\* ZkillMail with every field zero: what json.Unmarshal leaves on an error
ZeroZkillMail ==
    [KillmailID |-> 0, SolarSystemID |-> 0, Victim |-> ZeroVictim,
     Attackers |-> <<>>, ZKB |-> ZeroZKB]

\* FlattenedKillMail with every field zero: the FKM of a fresh KillDetails
ZeroFKM ==
    [KillMailID |-> 0, Hash |-> "", SolarSystemID |-> 0,
     FittedValue |-> 0, DroppedValue |-> 0, DestroyedValue |-> 0, TotalValue |-> 0,
     Points |-> 0, NPC |-> FALSE, Solo |-> FALSE, Awox |-> FALSE,
     SystemName |-> "",
     Victim |-> ZeroVictim, Attackers |-> <<>>,
     VictimCharacterName |-> "",
     FinalAttackerID |-> 0, FinalAttackerName |-> "",
     FinalAttackerCorpID |-> 0, FinalAttackerAllianceID |-> 0,
     FinalAttackerShipName |-> "", FinalAttackerCorpName |-> "",
     FinalAttackerAllianceName |-> "",
     VictimShipName |-> "", VictimCorpName |-> "", VictimAllianceName |-> ""]

\* json.Unmarshal(raw, &zm): a frame either parses to a ZkillMail or fails
Unmarshal(raw) ==
    IF raw.valid THEN [err |-> FALSE, zm |-> raw.zm]
                 ELSE [err |-> TRUE, zm |-> ZeroZkillMail]

----------------------------------------------------------------------------
(* The Discord webhook (discord.go) *)

\* The three destination channels and the config fields that hold their credentials
WebhookId(cfg, channel) ==
    CASE channel = "info" -> cfg.DiscordInfoWebhookId
      [] channel = "chain" -> cfg.DiscordChainkillWebhookId
      [] channel = "corpkill" -> cfg.DiscordCorpkillWebhookId

WebhookToken(cfg, channel) ==
    CASE channel = "info" -> cfg.DiscordInfoWebhookToken
      [] channel = "chain" -> cfg.DiscordChainkillWebhookToken
      [] channel = "corpkill" -> cfg.DiscordCorpkillWebhookToken

\* A variant of sendDiscordWebhook that posts once more when the first POST failed:
\* C25 rests on the single client.Do of line 42
sendDiscordWebhookRetries(webhookID, webhookToken, textMessage, embed, resp) ==
    IF webhookID = "" \/ webhookToken = ""
    THEN [err |-> "notconfigured", calls |-> <<>>]
    ELSE [err |-> IF resp = "ok" THEN "nil" ELSE resp,
          calls |-> IF resp = "ok"
                    THEN << [api |-> "sink", webhook |-> <<webhookID, webhookToken>>,
                             Content |-> textMessage, Embeds |-> embed] >>
                    ELSE << [api |-> "sink", webhook |-> <<webhookID, webhookToken>>,
                             Content |-> textMessage, Embeds |-> embed],
                            [api |-> "sink", webhook |-> <<webhookID, webhookToken>>,
                             Content |-> textMessage, Embeds |-> embed] >>]

\* A variant of sendDiscordWebhook without the check of lines 19-21, which posts to
\* the URL built from whatever id and token it was given: C26 rests on that check
sendDiscordWebhookUnchecked(webhookID, webhookToken, textMessage, embed, resp) ==
    [err |-> IF resp = "ok" THEN "nil" ELSE resp,
     calls |-> << [api |-> "sink", webhook |-> <<webhookID, webhookToken>>,
                   Content |-> textMessage, Embeds |-> embed] >>]

\* sendDiscordWebhook: no request without both credentials; otherwise exactly one
\* POST, whose outcome resp is "ok", "neterr" (client.Do failed) or "status"
\* (a status outside 200..299). Returns the error and the requests made.
sendDiscordWebhook(webhookID, webhookToken, textMessage, embed, resp) ==
    IF webhookID = "" \/ webhookToken = ""
    THEN [err |-> "notconfigured", calls |-> <<>>]
    ELSE [err |-> IF resp = "ok" THEN "nil" ELSE resp,
          calls |-> << [api |-> "sink", webhook |-> <<webhookID, webhookToken>>,
                        Content |-> textMessage, Embeds |-> embed] >>]

\* sendInfoMessage: one webhook send to the info channel, the error only logged
sendInfoMessage(cfg, messageBody, resp) ==
    sendDiscordWebhook(WebhookId(cfg, "info"), WebhookToken(cfg, "info"),
                       messageBody, <<>>, resp).calls

\* sendChainMessage: one webhook send to the chain channel, the error only logged
sendChainMessage(cfg, messageBody, resp) ==
    sendDiscordWebhook(WebhookId(cfg, "chain"), WebhookToken(cfg, "chain"),
                       messageBody, <<>>, resp).calls

----------------------------------------------------------------------------
(* The ESI lookups of killdetails.go *)

\* The name ESI holds for an entity: never empty, and different for different entities
EsiName(kind, id) == kind \o ":" \o ToString(id)

\* The nine name lookups GetKillDetails can issue, each failing on its own
LookupSlots ==
    {"system", "victimShip", "finalChar", "finalCorp", "finalAlli", "finalShip",
     "victimChar", "victimCorp", "victimAlli"}

\* A variant of the fetch functions that hands back a name with the error too, the
\* one of the last good answer: C22's blank field rests on the "" of lines 181-191
fetchNameStaleOnError(slot, kind, id, env) ==
    [err |-> slot \in env.fails, name |-> EsiName(kind, id)]

\* fetchCharacterName, fetchCorporationName, fetchAllianceName, fetchTypeName and
\* fetchSystemName: one GET; on a transport error, a status outside 200..299 or an
\* undecodable body the result is ("", err), otherwise (name, nil). env.fails holds
\* the lookups that fail.
fetchName(slot, kind, id, env) ==
    [err |-> slot \in env.fails,
     name |-> IF slot \in env.fails THEN "" ELSE EsiName(kind, id)]

\* A variant of LookupCalls without the `> 0` checks of lines 111-148, which asks
\* ESI about whatever id the killmail holds: C39 rests on those checks
LookupCallsUnchecked(kind, id) == << [api |-> "esi", kind |-> kind, id |-> id] >>

\* the request of one lookup, made only for an id above zero
LookupCalls(kind, id) ==
    IF id > 0 THEN << [api |-> "esi", kind |-> kind, id |-> id] >> ELSE <<>>

\* A name field whose lookup checks the error (system, victim ship, victim
\* character): set only when the id is above zero and the lookup succeeds
CheckedName(slot, kind, id, env) ==
    IF id > 0 /\ ~fetchName(slot, kind, id, env).err
    THEN fetchName(slot, kind, id, env).name
    ELSE ""

\* A name field whose lookup drops the error (corporations, alliances, the final
\* attacker's character and ship): when the id is above zero, whatever came back
StoredName(slot, kind, id, env) ==
    IF id > 0 THEN fetchName(slot, kind, id, env).name ELSE ""

\* A variant of finalIdx whose loop goes on after a flagged attacker (the `break` of
\* line 98 dropped), which takes the last one flagged: C21 rests on the break
finalIdxNoBreak(attackers) ==
    IF \E i \in 1..Len(attackers) : attackers[i].FinalBlow
    THEN CHOOSE i \in 1..Len(attackers) :
             /\ attackers[i].FinalBlow
             /\ \A j \in (i + 1)..Len(attackers) : ~attackers[j].FinalBlow
    ELSE IF Len(attackers) > 0 THEN 1
    ELSE 0

\* A variant of finalIdx that scans the attackers in an order that changes from one
\* call to the next, as a range over a map does, here with the clock: C29 rests on
\* the slice order of the range of line 95
finalIdxUnordered(attackers) ==
    IF \E i \in 1..Len(attackers) : attackers[i].FinalBlow
    THEN CHOOSE i \in 1..Len(attackers) :
             /\ attackers[i].FinalBlow
             /\ \A j \in 1..Len(attackers) :
                    attackers[j].FinalBlow => IF now % 2 = 0 THEN i <= j ELSE i >= j
    ELSE IF Len(attackers) > 0 THEN 1
    ELSE 0

\* the index in km.Attackers of the final attacker, or 0 for none (finalIdx + 1):
\* the first attacker flagged final blow, else the first attacker
finalIdx(attackers) ==
    IF \E i \in 1..Len(attackers) : attackers[i].FinalBlow
    THEN Min({i \in 1..Len(attackers) : attackers[i].FinalBlow})
    ELSE IF Len(attackers) > 0 THEN 1
    ELSE 0

\* an attacker with every field zero
ZeroAttacker ==
    [AllianceID |-> 0, CharacterID |-> 0, CorporationID |-> 0, FinalBlow |-> FALSE,
     ShipTypeID |-> 0]

\* km.Attackers[finalIdx]; with no final attacker lines 106-129 are skipped, which
\* leaves the fields they set at zero
finalAttacker(attackers) ==
    IF finalIdx(attackers) = 0 THEN ZeroAttacker ELSE attackers[finalIdx(attackers)]

\* lines 63-149 of GetKillDetails: the FKM merged from the frame zm, the killmail km
\* and the name lookups, given final == finalAttacker(km.Attackers)
MergedFKM(zm, km, final, env) ==
    [KillMailID |-> zm.KillmailID,
     Hash |-> zm.ZKB.Hash,
     SolarSystemID |-> km.SolarSystemID,
     Victim |-> km.Victim,
     Attackers |-> km.Attackers,
     TotalValue |-> zm.ZKB.TotalValue,
     DestroyedValue |-> zm.ZKB.DestroyedValue,
     DroppedValue |-> zm.ZKB.DroppedValue,
     FittedValue |-> zm.ZKB.FittedValue,
     Points |-> zm.ZKB.Points,
     NPC |-> zm.ZKB.NPC,
     Solo |-> zm.ZKB.Solo,
     Awox |-> zm.ZKB.Awox,
     SystemName |-> CheckedName("system", "system", km.SolarSystemID, env),
     VictimShipName |-> CheckedName("victimShip", "type", km.Victim.ShipTypeID, env),
     FinalAttackerID |-> final.CharacterID,
     FinalAttackerCorpID |-> final.CorporationID,
     FinalAttackerAllianceID |-> final.AllianceID,
     FinalAttackerName |->
         StoredName("finalChar", "character", final.CharacterID, env),
     FinalAttackerCorpName |->
         StoredName("finalCorp", "corporation", final.CorporationID, env),
     FinalAttackerAllianceName |->
         StoredName("finalAlli", "alliance", final.AllianceID, env),
     FinalAttackerShipName |-> StoredName("finalShip", "type", final.ShipTypeID, env),
     VictimCharacterName |->
         CheckedName("victimChar", "character", km.Victim.CharacterID, env),
     VictimCorpName |->
         StoredName("victimCorp", "corporation", km.Victim.CorporationID, env),
     VictimAllianceName |->
         StoredName("victimAlli", "alliance", km.Victim.AllianceID, env)]

\* the ESI requests of lines 77-149, in the order the code makes them
NameLookupCalls(km, final) ==
    LookupCalls("system", km.SolarSystemID)
    \o LookupCalls("type", km.Victim.ShipTypeID)
    \o LookupCalls("character", final.CharacterID)
    \o LookupCalls("corporation", final.CorporationID)
    \o LookupCalls("alliance", final.AllianceID)
    \o LookupCalls("type", final.ShipTypeID)
    \o LookupCalls("character", km.Victim.CharacterID)
    \o LookupCalls("corporation", km.Victim.CorporationID)
    \o LookupCalls("alliance", km.Victim.AllianceID)

\* the killmail request of lines 47-49
KillmailCall(zm) ==
    << [api |-> "esi", kind |-> "killmail", id |-> <<zm.KillmailID, zm.ZKB.Hash>>] >>

\* A variant of GetKillDetails without the return of lines 41-44, which asks ESI for
\* the killmail whatever the id and the hash: C36 rests on that return
GetKillDetailsAlwaysFetches(raw, env) ==
    IF Unmarshal(raw).err
    THEN [err |-> "unmarshal", fkm |-> ZeroFKM, calls |-> <<>>]
    ELSE IF env.killmail.outcome # "ok"
    THEN [err |-> env.killmail.outcome,
          fkm |-> [ZeroFKM EXCEPT !.KillMailID = raw.zm.KillmailID,
                                  !.SolarSystemID = raw.zm.SolarSystemID,
                                  !.Hash = raw.zm.ZKB.Hash],
          calls |-> KillmailCall(raw.zm)]
    ELSE [err |-> "nil",
          fkm |-> MergedFKM(raw.zm, env.killmail.km,
                            finalAttacker(env.killmail.km.Attackers), env),
          calls |-> KillmailCall(raw.zm)
                    \o NameLookupCalls(env.killmail.km,
                                       finalAttacker(env.killmail.km.Attackers))]

\* KillDetails.GetKillDetails on a fresh KillDetails: the error it returns, the FKM
\* it leaves and the ESI requests it made, in order. env.killmail is the outcome of
\* the killmail request: its outcome is "neterr", "status", "decode" or "ok", and
\* then km is the EsiKillMail.
GetKillDetails(raw, env) ==
    IF Unmarshal(raw).err
    THEN [err |-> "unmarshal", fkm |-> ZeroFKM, calls |-> <<>>]
    ELSE IF raw.zm.KillmailID = 0 \/ raw.zm.ZKB.Hash = ""
    THEN [err |-> "nil",
          fkm |-> [ZeroFKM EXCEPT !.KillMailID = raw.zm.KillmailID,
                                  !.SolarSystemID = raw.zm.SolarSystemID],
          calls |-> <<>>]
    ELSE IF env.killmail.outcome # "ok"
    THEN [err |-> env.killmail.outcome,
          fkm |-> [ZeroFKM EXCEPT !.KillMailID = raw.zm.KillmailID,
                                  !.SolarSystemID = raw.zm.SolarSystemID,
                                  !.Hash = raw.zm.ZKB.Hash],
          calls |-> KillmailCall(raw.zm)]
    ELSE [err |-> "nil",
          fkm |-> MergedFKM(raw.zm, env.killmail.km,
                            finalAttacker(env.killmail.km.Attackers), env),
          calls |-> KillmailCall(raw.zm)
                    \o NameLookupCalls(env.killmail.km,
                                       finalAttacker(env.killmail.km.Attackers))]

----------------------------------------------------------------------------
(* The embed composer (KillEmbed) *)

\* A variant of pickColor that takes the loss colour whatever isKill is: C27 rests
\* on the check of line 480
pickColorLossOnly(cfg, isKill) == cfg.DiscordKillNotifications.LossColor

\* pickColor: the configured colour string for a kill or for a loss
pickColor(cfg, isKill) ==
    IF isKill THEN cfg.DiscordKillNotifications.KillColor
              ELSE cfg.DiscordKillNotifications.LossColor

HexChars ==
    <<"0", "1", "2", "3", "4", "5", "6", "7", "8", "9", "A", "B", "C", "D", "E", "F">>

LowerHexChars ==
    <<"0", "1", "2", "3", "4", "5", "6", "7", "8", "9", "a", "b", "c", "d", "e", "f">>

HexCharSet == Range(HexChars)

AnyHexCharSet == Range(HexChars) \cup Range(LowerHexChars)

IsHex(c) == c \in AnyHexCharSet

HexVal(c) ==
    IF c \in HexCharSet
    THEN (CHOOSE i \in 1..16 : HexChars[i] = c) - 1
    ELSE (CHOOSE i \in 1..16 : LowerHexChars[i] = c) - 1

\* one %02x field of the scan: the two hex digits at positions i and i+1
HexByte(hexStr, i) ==
    16 * HexVal(SubSeq(hexStr, i, i)) + HexVal(SubSeq(hexStr, i + 1, i + 1))

\* parseHexColor for "#RRGGBB" (the scan succeeds) and for strings the scan
\* rejects at once (the empty string, a string that does not start with "#"):
\* (r << 16) + (g << 8) + b, or 0xFFFFFF when the scan fails
parseHexColor(hexStr) ==
    IF /\ Len(hexStr) = 7
       /\ SubSeq(hexStr, 1, 1) = "#"
       /\ \A i \in 2..7 : IsHex(SubSeq(hexStr, i, i))
    THEN HexByte(hexStr, 2) * 65536 + HexByte(hexStr, 4) * 256 + HexByte(hexStr, 6)
    ELSE 16777215

\* formatISKValue for a non-negative whole amount of ISK that is not an exact tie of
\* either rounding: below one million the fixed label; otherwise the millions,
\* rounded to hundredths (math.Round) and printed with "%.1f"
formatISKValue(amount) ==
    IF amount < 1000000 THEN "<1 M ISK"
    ELSE
    LET hundredths == (amount + 5000) \div 10000
        tenths == (hundredths + 5) \div 10
    IN  ToString(tenths \div 10) \o "." \o ToString(tenths % 10) \o "m ISK"

\* KillEmbed.CreateEmbed: the embed built from the FKM and IsKill of the KillDetails
CreateEmbed(cfg, fkm, isKill, t) ==
    LET isAwox == fkm.Awox
        intColor == parseHexColor(pickColor(cfg, isKill))
        zkillLink == <<"https://zkillboard.com/kill/", fkm.KillMailID>>
        authorText == IF isAwox THEN "Cowardly Awox"
                      ELSE IF isKill THEN "Kill" ELSE "Loss"
        authorImage == IF fkm.Victim.AllianceID > 0
                       THEN <<"Alliance", fkm.Victim.AllianceID>>
                       ELSE <<"Corporation", fkm.Victim.CorporationID>>
        finalAttackerName == IF fkm.FinalAttackerName = "" THEN "UnknownAttacker"
                             ELSE fkm.FinalAttackerName
        finalAttackerShip == IF fkm.FinalAttackerShipName = "" THEN "UnknownShip"
                             ELSE fkm.FinalAttackerShipName
        victimCharName == IF fkm.VictimCharacterName = "" THEN "UnknownVictim"
                          ELSE fkm.VictimCharacterName
        victimShipName == IF fkm.VictimShipName = "" THEN "UnknownShip"
                          ELSE fkm.VictimShipName
        victimZkillURL == <<"https://zkillboard.com/character/", fkm.Victim.CharacterID>>
        attackerZkillURL == IF fkm.FinalAttackerID > 0
                            THEN <<"https://zkillboard.com/character/", fkm.FinalAttackerID>>
                            ELSE <<"https://zkillboard.com/">>
        attackersCount == Len(fkm.Attackers)
        descEnd == IF attackersCount > 1 THEN <<"and", attackersCount - 1, "others">>
                   ELSE <<"solo">>
        victimGroupName == IF fkm.Victim.AllianceID > 0 THEN fkm.VictimAllianceName
                           ELSE IF fkm.Victim.CorporationID > 0 THEN fkm.VictimCorpName
                           ELSE "UnknownGroup"
        attackerGroupName == IF fkm.FinalAttackerAllianceID > 0
                             THEN fkm.FinalAttackerAllianceName
                             ELSE IF fkm.FinalAttackerCorpID > 0
                             THEN fkm.FinalAttackerCorpName
                             ELSE "UnknownGroup"
        systemName == IF fkm.SystemName = ""
                      THEN "SystemID:" \o ToString(fkm.SolarSystemID)
                      ELSE fkm.SystemName
    IN  [Title |-> [ship |-> victimShipName, system |-> systemName],
         URL |-> zkillLink,
         Color |-> intColor,
         Timestamp |-> t,
         Author |-> [Name |-> authorText, URL |-> zkillLink, IconURL |-> authorImage],
         Description |->
             [victimCharName |-> victimCharName, victimZkillURL |-> victimZkillURL,
              victimGroupName |-> victimGroupName, victimShipName |-> victimShipName,
              finalAttackerName |-> finalAttackerName,
              attackerZkillURL |-> attackerZkillURL,
              attackerGroupName |-> attackerGroupName,
              finalAttackerShip |-> finalAttackerShip, descEnd |-> descEnd],
         Thumbnail |-> <<"Type", fkm.Victim.ShipTypeID>>,
         Footer |-> "Value: " \o formatISKValue(fkm.TotalValue)]

----------------------------------------------------------------------------
(* The reference cache of ChainKillChecker *)

\* minToGetLatestSystems, as NewChainKillChecker sets it
minToGetLatestSystems == 0

\* int(time.Since(since).Minutes()) at clock tick t
MinutesSince(t, since) == (t - since) \div TicksPerMinute

Letters ==
    {"A", "B", "C", "D", "E", "F", "G", "H", "I", "J", "K", "L", "M", "N", "O", "P",
     "Q", "R", "S", "T", "U", "V", "W", "X", "Y", "Z",
     "a", "b", "c", "d", "e", "f", "g", "h", "i", "j", "k", "l", "m", "n", "o", "p",
     "q", "r", "s", "t", "u", "v", "w", "x", "y", "z"}

\* A variant of KeepsSystem that tests the last character against 'A'..'Z' only:
\* C15 rests on both halves of the test of line 329
KeepsSystemUpperCaseOnly(item) ==
    /\ Len(item.Name) # 0
    /\ SubSeq(item.Name, Len(item.Name), Len(item.Name)) \notin
           {"A", "B", "C", "D", "E", "F", "G", "H", "I", "J", "K", "L", "M", "N", "O",
            "P", "Q", "R", "S", "T", "U", "V", "W", "X", "Y", "Z"}

\* the filter of updateSystems: an entry is kept unless its name is empty or ends
\* in an ASCII letter
KeepsSystem(item) ==
    /\ Len(item.Name) # 0
    /\ SubSeq(item.Name, Len(item.Name), Len(item.Name)) \notin Letters

\* newSystems of updateSystems: the kept entries of body.Data, in order
RECURSIVE newSystems(_)
newSystems(data) ==
    IF data = <<>> THEN <<>>
    ELSE IF KeepsSystem(Head(data))
    THEN <<[SystemId |-> Head(data).SolarSystemId, Alias |-> Head(data).Name]>>
         \o newSystems(Tail(data))
    ELSE newSystems(Tail(data))

\* A response of the map API: its outcome is "badurl" (NewRequest fails), "neterr"
\* (client.Do fails), "status" (not 200), "decode" (undecodable body) or "ok", and
\* then data is body.Data
Failed(outcome) == [outcome |-> outcome, data |-> <<>>]

Ok(data) == [outcome |-> "ok", data |-> data]

\* A variant of updateSystems that assigns the empty list to ck.systems before it
\* returns an error: C14 rests on the early returns of lines 295-320 coming before
\* the assignment of line 339
updateSystemsClearsOnError(cfg, st, resp, infoResp, t) ==
    LET get == << [api |-> "mapapi", kind |-> "systems"] >>
        cleared == [st EXCEPT !.systems = <<>>]
    IN  CASE resp.outcome = "badurl" -> [err |-> "badurl", st |-> cleared, calls |-> <<>>]
          [] resp.outcome \in {"neterr", "status"} ->
                [err |-> resp.outcome, st |-> cleared,
                 calls |-> get \o sendInfoMessage(cfg, "Error updateSystems", infoResp)]
          [] resp.outcome = "decode" -> [err |-> "decode", st |-> cleared, calls |-> get]
          [] OTHER ->
                [err |-> "nil",
                 st |-> [st EXCEPT !.systems = newSystems(resp.data),
                                   !.lastUpdateTime = t],
                 calls |-> get]

\* A variant of updateSystems that stamps lastUpdateTime when the request was made,
\* whatever came of it: C34 rests on the stamp of line 340 coming after every return
updateSystemsStampsFirst(cfg, st, resp, infoResp, t) ==
    CASE resp.outcome = "badurl" ->
             [err |-> "badurl", st |-> [st EXCEPT !.lastUpdateTime = t], calls |-> <<>>]
      [] resp.outcome \in {"neterr", "status"} ->
             [err |-> resp.outcome, st |-> [st EXCEPT !.lastUpdateTime = t],
              calls |-> << [api |-> "mapapi", kind |-> "systems"] >>
                        \o sendInfoMessage(cfg, "Error updateSystems", infoResp)]
      [] resp.outcome = "decode" ->
             [err |-> "decode", st |-> [st EXCEPT !.lastUpdateTime = t],
              calls |-> << [api |-> "mapapi", kind |-> "systems"] >>]
      [] OTHER ->
             [err |-> "nil",
              st |-> [st EXCEPT !.systems = newSystems(resp.data), !.lastUpdateTime = t],
              calls |-> << [api |-> "mapapi", kind |-> "systems"] >>]

\* updateSystems on response resp. st is the cache; the result is the error, the
\* cache after the call and the requests made. Only a success writes systems and
\* lastUpdateTime.
updateSystems(cfg, st, resp, infoResp, t) ==
    LET get == << [api |-> "mapapi", kind |-> "systems"] >>
    IN  CASE resp.outcome = "badurl" -> [err |-> "badurl", st |-> st, calls |-> <<>>]
          [] resp.outcome \in {"neterr", "status"} ->
                [err |-> resp.outcome, st |-> st,
                 calls |-> get \o sendInfoMessage(cfg, "Error updateSystems", infoResp)]
          [] resp.outcome = "decode" -> [err |-> "decode", st |-> st, calls |-> get]
          [] OTHER ->
                [err |-> "nil",
                 st |-> [st EXCEPT !.systems = newSystems(resp.data),
                                   !.lastUpdateTime = t],
                 calls |-> get]

\* newChars of getMapCharacters: one MapCharacter per entry of body.Data, in order
newChars(data) ==
    [i \in 1..Len(data) |->
        [CharacterId |-> data[i].EveID,
         CorporationId |-> data[i].CorporationID,
         AllianceId |-> data[i].AllianceID]]

\* getMapCharacters, with the outcomes of updateSystems; only a success writes
\* mapCharacters
getMapCharacters(cfg, st, resp, infoResp) ==
    LET get == << [api |-> "mapapi", kind |-> "characters"] >>
    IN  CASE resp.outcome = "badurl" -> [err |-> "badurl", st |-> st, calls |-> <<>>]
          [] resp.outcome \in {"neterr", "status"} ->
                [err |-> resp.outcome, st |-> st,
                 calls |-> get \o sendInfoMessage(cfg, "Error getMapCharacters",
                                                  infoResp)]
          [] resp.outcome = "decode" -> [err |-> "decode", st |-> st, calls |-> get]
          [] OTHER ->
                [err |-> "nil",
                 st |-> [st EXCEPT !.mapCharacters = newChars(resp.data)],
                 calls |-> get]

----------------------------------------------------------------------------
(* handleZKillMessage *)

\* lines 174-182: some tracked id is the victim's corporation or alliance id
VictimMatch(zm, tracked) ==
    \E k \in 1..Len(tracked) :
        tracked[k] = zm.Victim.CorporationID \/ tracked[k] = zm.Victim.AllianceID

\* lines 205-212: the attacker's character id, in decimal, is the CharacterId of
\* some map character
IsMapCharacter(att, chars) ==
    \E k \in 1..Len(chars) : chars[k].CharacterId = ToString(att.CharacterID)

\* A variant of AttackerMatches that leaves out the map characters (lines 205-212
\* dropped): C2 rests on that loop
AttackerMatchesWatchlistOnly(att, tracked, chars) ==
    \E k \in 1..Len(tracked) :
        att.CorporationID = tracked[k] \/ att.AllianceID = tracked[k]

\* lines 190-212: what sets matchedCorpKill for one attacker
AttackerMatches(att, tracked, chars) ==
    \/ \E k \in 1..Len(tracked) :
          att.CorporationID = tracked[k] \/ att.AllianceID = tracked[k]
    \/ IsMapCharacter(att, chars)

\* A variant of MatchCorpKill that looks at the attackers whatever the victim
\* (the guard of line 184 dropped): C1 rests on that guard
MatchCorpKillAttackersAlways(zm, tracked, chars) ==
    IF \E i \in 1..Len(zm.Attackers) :
           AttackerMatches(zm.Attackers[i], tracked, chars)
    THEN [matchedCorpKill |-> TRUE, isKill |-> TRUE]
    ELSE IF VictimMatch(zm, tracked)
    THEN [matchedCorpKill |-> TRUE, isKill |-> FALSE]
    ELSE [matchedCorpKill |-> FALSE, isKill |-> FALSE]

\* A variant of MatchCorpKill whose attacker loop ends after its first iteration,
\* matched or not: C37 rests on the loop of line 189 going through every attacker
MatchCorpKillFirstAttacker(zm, tracked, chars) ==
    IF VictimMatch(zm, tracked)
    THEN [matchedCorpKill |-> TRUE, isKill |-> FALSE]
    ELSE IF zm.Attackers # <<>> /\ AttackerMatches(zm.Attackers[1], tracked, chars)
    THEN [matchedCorpKill |-> TRUE, isKill |-> TRUE]
    ELSE [matchedCorpKill |-> FALSE, isKill |-> FALSE]

\* A variant of MatchCorpKill whose attacker loop looks at the watchlist alone, an
\* attacker who is a map character not making a Kill: C32 rests on lines 204-212
MatchCorpKillNoLocals(zm, tracked, chars) ==
    IF VictimMatch(zm, tracked)
    THEN [matchedCorpKill |-> TRUE, isKill |-> FALSE]
    ELSE IF \E i \in 1..Len(zm.Attackers) : \E k \in 1..Len(tracked) :
                \/ zm.Attackers[i].CorporationID = tracked[k]
                \/ zm.Attackers[i].AllianceID = tracked[k]
    THEN [matchedCorpKill |-> TRUE, isKill |-> TRUE]
    ELSE [matchedCorpKill |-> FALSE, isKill |-> FALSE]

\* lines 166-227: matchedCorpKill and isKill. The attackers are looked at only when
\* the victim did not match; the loop stops at the first attacker that matches.
MatchCorpKill(zm, tracked, chars) ==
    IF VictimMatch(zm, tracked)
    THEN [matchedCorpKill |-> TRUE, isKill |-> FALSE]
    ELSE IF \E i \in 1..Len(zm.Attackers) :
                AttackerMatches(zm.Attackers[i], tracked, chars)
    THEN [matchedCorpKill |-> TRUE, isKill |-> TRUE]
    ELSE [matchedCorpKill |-> FALSE, isKill |-> FALSE]

\* lines 419-430 of sendCorpKillMessage: the embed of the KillDetails kd is built
\* and sent to the corp kill channel, the error of the send only logged
SendKillEmbed(cfg, kd, embed, env) ==
    [kdErr |-> kd.err, fkm |-> kd.fkm, embed |-> embed,
     calls |-> kd.calls
               \o sendDiscordWebhook(WebhookId(cfg, "corpkill"),
                                     WebhookToken(cfg, "corpkill"),
                                     "", <<embed>>, env.notifyResp).calls]

\* lines 413-420 of sendCorpKillMessage: the error of GetKillDetails is only
\* logged, and the embed is built from whatever FKM it left
EmbedKillDetails(cfg, kd, isKill, env, t) ==
    SendKillEmbed(cfg, kd, CreateEmbed(cfg, kd.fkm, isKill, t), env)

\* sendCorpKillMessage: a fresh KillDetails, GetKillDetails, IsKill, the embed and
\* one send to the corp kill channel
sendCorpKillMessage(cfg, raw, isKill, env, t) ==
    EmbedKillDetails(cfg, GetKillDetails(raw, env), isKill, env, t)

\* A variant of matchedSystem that takes the first system of the list whatever its
\* id (the comparison of line 237 dropped): C4 rests on that comparison
matchedSystemFirstEntry(zm, syss) ==
    IF Len(syss) = 0 THEN 0 ELSE 1

\* lines 236-242: the index in systems of the first entry with the frame's solar
\* system id, or 0 (matchedSystem == nil)
matchedSystem(zm, syss) ==
    LET hits == {i \in 1..Len(syss) : syss[i].SystemId = zm.SolarSystemID}
    IN  IF hits = {} THEN 0 ELSE Min(hits)

\* lines 247-258: some attacker is a map character
foundMappedAttacker(zm, chars) ==
    \E i \in 1..Len(zm.Attackers) : IsMapCharacter(zm.Attackers[i], chars)

\* A variant of SystemStage without the ignore list (lines 244-246 dropped): C3
\* rests on that check
SystemStageNoIgnoreList(cfg, st, zm, returned, env) ==
    LET m == matchedSystem(zm, st.systems)
    IN  IF ~returned /\ m # 0 /\ ~foundMappedAttacker(zm, st.mapCharacters)
        THEN [chain |-> TRUE,
              calls |-> sendChainMessage(cfg,
                            [alias |-> st.systems[m].Alias,
                             people |-> Len(zm.Attackers),
                             kill |-> zm.KillmailID],
                            env.notifyResp)]
        ELSE [chain |-> FALSE, calls |-> <<>>]

\* A variant of SystemStage that runs after sendCorpKillMessage too (the return of
\* line 232 dropped): C5 rests on that return
SystemStageNoReturn(cfg, st, zm, returned, env) ==
    LET m == matchedSystem(zm, st.systems)
    IN  IF /\ m # 0
           /\ ~Contains(cfg.IgnoreSystemIds, st.systems[m].SystemId)
           /\ ~foundMappedAttacker(zm, st.mapCharacters)
        THEN [chain |-> TRUE,
              calls |-> sendChainMessage(cfg,
                            [alias |-> st.systems[m].Alias,
                             people |-> Len(zm.Attackers),
                             kill |-> zm.KillmailID],
                            env.notifyResp)]
        ELSE [chain |-> FALSE, calls |-> <<>>]

\* lines 229-271, after the match: nothing when the function returned at line 232
\* (returned); otherwise the chain message of a matched, not ignored system with
\* no mapped attacker. The result is the requests made.
SystemStage(cfg, st, zm, returned, env) ==
    LET m == matchedSystem(zm, st.systems)
    IN  IF returned THEN [chain |-> FALSE, calls |-> <<>>]
        ELSE IF m # 0 /\ ~Contains(cfg.IgnoreSystemIds, st.systems[m].SystemId)
        THEN IF ~foundMappedAttacker(zm, st.mapCharacters)
             THEN [chain |-> TRUE,
                   calls |-> sendChainMessage(cfg,
                                 [alias |-> st.systems[m].Alias,
                                  people |-> Len(zm.Attackers),
                                  kill |-> zm.KillmailID],
                                 env.notifyResp)]
             ELSE [chain |-> FALSE, calls |-> <<>>]
        ELSE [chain |-> FALSE, calls |-> <<>>]

\* lines 149-154: the status message, sent when more whole minutes than
\* minToSendDiscord have passed since the last one
StatusStage(cfg, st, env, t) ==
    IF MinutesSince(t, st.lastDiscordStatusTime) > cfg.DiscordStatusReportMins
    THEN [st |-> [st EXCEPT !.lastDiscordStatusTime = t],
          calls |-> sendInfoMessage(cfg, "Chainkills checker running.", env.infoResp)]
    ELSE [st |-> st, calls |-> <<>>]

\* A variant of the refresh that fetches the map characters too, as StartListening
\* does: C33 rests on handleZKillMessage calling updateSystems alone
RefreshStageBothLists(cfg, st, env, t) ==
    IF MinutesSince(t, st.lastUpdateTime) > minToGetLatestSystems
    THEN [refreshed |-> TRUE,
          err |-> updateSystems(cfg, st, env.systemsResp, env.infoResp, t).err,
          st |-> getMapCharacters(cfg,
                     updateSystems(cfg, st, env.systemsResp, env.infoResp, t).st,
                     Ok(<<[EveID |-> "9", CorporationID |-> 3, AllianceID |-> 0]>>),
                     env.infoResp).st,
          calls |-> updateSystems(cfg, st, env.systemsResp, env.infoResp, t).calls
                    \o << [api |-> "mapapi", kind |-> "characters"] >>]
    ELSE [refreshed |-> FALSE, err |-> "nil", st |-> st, calls |-> <<>>]

\* lines 156-164: the refresh of the system list, when more whole minutes than
\* minToGetLatestSystems have passed since the last one; its error is only logged
RefreshStage(cfg, st, env, t) ==
    IF MinutesSince(t, st.lastUpdateTime) > minToGetLatestSystems
    THEN [refreshed |-> TRUE] @@ updateSystems(cfg, st, env.systemsResp, env.infoResp, t)
    ELSE [refreshed |-> FALSE, err |-> "nil", st |-> st, calls |-> <<>>]

\* What handling a frame did when it could not be parsed
ParseErrorObs(raw) ==
    [raw |-> raw, parsed |-> FALSE, matchedCorpKill |-> FALSE, isKill |-> FALSE,
     chain |-> FALSE, refreshed |-> FALSE, refreshErr |-> "nil", corp |-> <<>>,
     calls |-> <<>>]

\* lines 229-272: what the handler did, given the refresh stage s2, the match mt,
\* the result corp of sendCorpKillMessage (when called) and the system stage s3
HandlerResult(raw, calls1, s2, mt, corp, s3) ==
    [st |-> s2.st,
     obs |-> [raw |-> raw, parsed |-> TRUE,
              matchedCorpKill |-> mt.matchedCorpKill,
              isKill |-> mt.isKill,
              chain |-> s3.chain,
              refreshed |-> s2.refreshed,
              refreshErr |-> s2.err,
              corp |-> corp,
              calls |-> calls1 \o s2.calls
                        \o (IF corp # <<>> THEN corp[1].calls ELSE <<>>)
                        \o s3.calls]]

\* A variant of the dispatch that hands every parsed frame to sendCorpKillMessage,
\* matched or not: C23 rests on the matchedCorpKill check of line 229
DispatchStageEnrichesAll(cfg, raw, calls1, s2, mt, env, t) ==
    HandlerResult(raw, calls1, s2, mt,
                  <<sendCorpKillMessage(cfg, raw, mt.isKill, env, t)>>,
                  SystemStage(cfg, s2.st, raw.zm, mt.matchedCorpKill, env))

\* lines 229-271: a matched kill goes to sendCorpKillMessage and the function
\* returns; otherwise the system stage runs
DispatchStage(cfg, raw, calls1, s2, mt, env, t) ==
    HandlerResult(raw, calls1, s2, mt,
                  IF mt.matchedCorpKill
                  THEN <<sendCorpKillMessage(cfg, raw, mt.isKill, env, t)>>
                  ELSE <<>>,
                  SystemStage(cfg, s2.st, raw.zm, mt.matchedCorpKill, env))

\* lines 166-227: the match, on the watchlist and the map characters of the cache
\* the refresh left
MatchStage(cfg, raw, calls1, s2, env, t) ==
    DispatchStage(cfg, raw, calls1, s2,
                  MatchCorpKill(raw.zm, cfg.InsightTrackedIds, s2.st.mapCharacters),
                  env, t)

\* lines 156-164, after the status stage s1
AfterStatus(cfg, raw, s1, env, t) ==
    MatchStage(cfg, raw, s1.calls, RefreshStage(cfg, s1.st, env, t), env, t)

\* A variant of handleZKillMessage that sends the due status message before it
\* parses the frame: C24 rests on the parse of lines 143-147 coming first
handleZKillMessageStatusFirst(cfg, st, raw, env, t) ==
    IF Unmarshal(raw).err
    THEN [st |-> StatusStage(cfg, st, env, t).st,
          obs |-> [ParseErrorObs(raw) EXCEPT !.calls = StatusStage(cfg, st, env, t).calls]]
    ELSE AfterStatus(cfg, raw, StatusStage(cfg, st, env, t), env, t)

\* handleZKillMessage(raw) at clock tick t, on cache st, with the outcomes env of the
\* requests it makes: the cache it leaves and what it did. corp holds the result of
\* sendCorpKillMessage when it was called; calls are the requests made, in order.
handleZKillMessage(cfg, st, raw, env, t) ==
    IF Unmarshal(raw).err THEN [st |-> st, obs |-> ParseErrorObs(raw)]
    ELSE AfterStatus(cfg, raw, StatusStage(cfg, st, env, t), env, t)

----------------------------------------------------------------------------
(* The inputs the model draws from *)

\* A config.json with every webhook configured
BaseConfig ==
    [IgnoreSystemIds |-> <<>>,
     InsightTrackedIds |-> <<1>>,
     DiscordStatusReportMins |-> 0,
     DiscordInfoWebhookId |-> "info-id",
     DiscordInfoWebhookToken |-> "info-token",
     DiscordChainkillWebhookId |-> "chain-id",
     DiscordChainkillWebhookToken |-> "chain-token",
     DiscordCorpkillWebhookId |-> "corpkill-id",
     DiscordCorpkillWebhookToken |-> "corpkill-token",
     DiscordKillNotifications |-> [KillColor |-> "#00FF00", LossColor |-> "#FF0000"]]

\* The configurations: a watchlist and an ignore list each
Cfg(tracked, ignored) ==
    [BaseConfig EXCEPT !.InsightTrackedIds = tracked, !.IgnoreSystemIds = ignored]

Configs == {Cfg(<<1>>, <<>>), Cfg(<<2, 1>>, <<31>>), Cfg(<<>>, <<32>>)}

\* Attackers of a feed frame: one known by its corporation, one by its alliance, one
\* by a character the map may hold, and one the map does not hold
Att(corp, alli, char) ==
    [AllianceID |-> alli, CharacterID |-> char, CorporationID |-> corp,
     FinalBlow |-> FALSE, ShipTypeID |-> 0]

AttackerPool == {Att(1, 0, 0), Att(3, 2, 0), Att(3, 0, 5), Att(3, 0, 6)}

\* Victims of a feed frame, by corporation and alliance id
Vic(corp, alli) == [ZeroVictim EXCEPT !.CorporationID = corp, !.AllianceID = alli]

VictimPool == {Vic(1, 0), Vic(3, 2), Vic(3, 0)}

SolarSystemIds == {31, 32, 33}

\* the economic block of the frames
BaseZKB == [ZeroZKB EXCEPT !.Hash = "h", !.TotalValue = 2500000]

\* The frames of the feed: one that does not parse, and the kill records
Frames(victims, attackerLists, systemIds) ==
    {[valid |-> FALSE, zm |-> ZeroZkillMail]}
    \cup {[valid |-> TRUE,
           zm |-> [KillmailID |-> 100, SolarSystemID |-> sys, Victim |-> v,
                   Attackers |-> atts, ZKB |-> BaseZKB]] :
            v \in victims, atts \in attackerLists, sys \in systemIds}

RawMessages == Frames(VictimPool, SeqsUpTo(AttackerPool, MaxAttackers), SolarSystemIds)

\* Bodies of the map API's systems endpoint
Sys(name, id) == [Name |-> name, SolarSystemId |-> id]

StartupSystemsData == <<Sys("J100", 31), Sys("Jita", 32)>>

RefreshSystemsData ==
    <<Sys("", 33), Sys("J200", 32), Sys("J5Z", 33), Sys("C3-A1", 31), Sys("Thera", 31)>>

\* Bodies of the map API's characters endpoint
Chr(eveId) == [EveID |-> eveId, CorporationID |-> 3, AllianceID |-> 0]

StartupCharactersData == <<Chr("5"), Chr("06")>>

\* The killmail ESI returns for the frames
BaseKillMail ==
    [SolarSystemID |-> 31,
     Victim |-> [AllianceID |-> 0, CorporationID |-> 1, CharacterID |-> 7,
                 ShipTypeID |-> 587],
     Attackers |-> << [Att(3, 0, 5) EXCEPT !.FinalBlow = TRUE, !.ShipTypeID = 622] >>]

\* Outcomes of the requests one handler makes
Envs ==
    [infoResp : {"ok"},
     systemsResp : {Failed("status"), Ok(RefreshSystemsData)},
     killmail : {[outcome |-> "ok", km |-> BaseKillMail]},
     fails : {{}},
     notifyResp : {"ok"}]

----------------------------------------------------------------------------
(* The sequential pipeline: StartListening, then one frame handled at a time *)

\* The handler goroutines that run side by side
Racers == 1..MaxRacers

\* A handler goroutine that has not started: its frame, the list its updateSystems
\* fetched, the length and index of its range over ck.systems, the system it
\* matched, the refreshes whose lists it read, the ck.lastDiscordStatusTime its check
\* of line 151 passed against (statusSince), and what it sent
IdleHandler ==
    [pc |-> "idle", raw |-> [valid |-> FALSE, zm |-> ZeroZkillMail],
     fetched |-> <<>>, n |-> 0, i |-> 0, m |-> <<>>,
     sysGens |-> {}, chrGens |-> {}, status |-> FALSE, statusSince |-> <<>>,
     out |-> "none"]

\* The threads that call Close: main, on a signal, and one other caller
Closers == {"main", "other"}

Cache ==
    [systems |-> systems, mapCharacters |-> mapCharacters,
     lastUpdateTime |-> lastUpdateTime,
     lastDiscordStatusTime |-> lastDiscordStatusTime]

NoObs == [kind |-> "none"]

\* A killmail whose victim and final attacker are in an alliance
AllianceKillMail ==
    [SolarSystemID |-> 31,
     Victim |-> [AllianceID |-> 2, CorporationID |-> 1, CharacterID |-> 7,
                 ShipTypeID |-> 587],
     Attackers |-> << [Att(3, 0, 6) EXCEPT !.ShipTypeID = 17],
                      [Att(3, 4, 5) EXCEPT !.FinalBlow = TRUE, !.ShipTypeID = 622] >>]

\* A loss and a kill of the watchlist <<1>>, for the enrichment
KillFrames ==
    Frames({Vic(1, 0)}, {<<Att(3, 0, 6)>>}, {33})
    \cup Frames({Vic(3, 0)}, {<<Att(1, 0, 0)>>}, {33})

\* Outcomes of the requests of the enrichment: the killmail fetch fails or gives a
\* killmail, at most one name lookup fails, the webhook accepts the message or not
KillEnvs ==
    [infoResp : {"ok"},
     systemsResp : {Ok(RefreshSystemsData)},
     killmail : {[outcome |-> "ok", km |-> BaseKillMail],
                 [outcome |-> "ok", km |-> AllianceKillMail],
                 [outcome |-> "neterr", km |-> BaseKillMail],
                 [outcome |-> "status", km |-> BaseKillMail],
                 [outcome |-> "decode", km |-> BaseKillMail]},
     fails : {{}} \cup {{slot} : slot \in LookupSlots},
     notifyResp : {"ok", "status"}]

\* Frames of kills by strangers in the systems of the map, for the refresh
RefreshFrames == Frames({Vic(3, 0)}, {<<Att(3, 0, 6)>>}, {31, 32})

\* Outcomes of the request of the refresh: NewRequest fails, client.Do fails, the
\* status is not 200, the body cannot be decoded, or the body is decoded
RefreshEnvs ==
    [infoResp : {"ok"},
     systemsResp : {Failed("badurl"), Failed("neterr"), Failed("status"),
                    Failed("decode"), Ok(RefreshSystemsData)},
     killmail : {[outcome |-> "ok", km |-> BaseKillMail]},
     fails : {{}},
     notifyResp : {"ok"}]

\* NewChainKillChecker: empty lists, both times set to the time of construction
InitOf(configs) ==
    /\ config \in configs
    /\ systems = <<>>
    /\ mapCharacters = <<>>
    /\ now = 0
    /\ lastUpdateTime = 0
    /\ lastDiscordStatusTime = 0
    /\ phase = "new"
    /\ obs = NoObs
    /\ mu = "free"
    /\ wsConn = 0
    /\ wsCancelFunc = 0
    /\ lpc = "top"
    /\ loopCtx = 0
    /\ loopConn = 0
    /\ dials = 0
    /\ connOpen = {}
    /\ cancelled = {}
    /\ cpc = [c \in Closers |-> "idle"]
    /\ sleepLeft = 0
    /\ exitLeft = 0
    /\ exited = FALSE
    /\ inflight = 0
    /\ fault = FALSE
    /\ sinceClose = [returned |-> FALSE, dialed |-> FALSE, opened |-> FALSE,
                     spawned |-> FALSE]
    /\ subscribed = FALSE
    /\ handlers = [h \in Racers |-> IdleHandler]
    /\ sysGen = 0
    /\ crashed = FALSE

\* NewChainKillChecker, on one of the configurations
Init == InitOf(Configs)

\* A variant of StartListening that returns when one of its fetches fails, without
\* starting the connect loop: C38 rests on the errors of lines 67-72 being only logged
StartListeningReturnsOnError(sysResp, charResp, infoResp) ==
    /\ phase = "new"
    /\ \E u \in {updateSystems(config, Cache, sysResp, infoResp, now)} :
       \E g \in {getMapCharacters(config, u.st, charResp, infoResp)} :
           /\ systems' = g.st.systems
           /\ mapCharacters' = g.st.mapCharacters
           /\ lastUpdateTime' = g.st.lastUpdateTime
           /\ lastDiscordStatusTime' = g.st.lastDiscordStatusTime
           /\ obs' = [kind |-> "startup", systemsErr |-> u.err, charactersErr |-> g.err,
                      calls |-> u.calls \o g.calls]
           /\ phase' = IF u.err = "nil" /\ g.err = "nil" THEN "listening" ELSE "returned"
    /\ UNCHANGED <<raceVars, config, now, connVars>>

\* StartListening, up to the start of the connect loop: updateSystems, then
\* getMapCharacters, the error of either only logged
StartListening(sysResp, charResp, infoResp) ==
    /\ phase = "new"
    /\ \E u \in {updateSystems(config, Cache, sysResp, infoResp, now)} :
       \E g \in {getMapCharacters(config, u.st, charResp, infoResp)} :
           /\ systems' = g.st.systems
           /\ mapCharacters' = g.st.mapCharacters
           /\ lastUpdateTime' = g.st.lastUpdateTime
           /\ lastDiscordStatusTime' = g.st.lastDiscordStatusTime
           /\ obs' = [kind |-> "startup", systemsErr |-> u.err, charactersErr |-> g.err,
                      calls |-> u.calls \o g.calls]
    /\ phase' = "listening"
    /\ UNCHANGED <<raceVars, config, now, connVars>>

\* time passes between frames
Tick ==
    /\ phase = "listening"
    /\ now < MaxTime
    /\ now' = now + 1
    /\ UNCHANGED <<raceVars, config, cacheVars, phase, obs, connVars>>

\* the read loop receives frame raw and its handler runs to its return, the
\* requests it makes having the outcomes env
HandleZKillMessage(raw, env) ==
    /\ phase = "listening"
    /\ \E h \in {handleZKillMessage(config, Cache, raw, env, now)} :
           /\ systems' = h.st.systems
           /\ mapCharacters' = h.st.mapCharacters
           /\ lastUpdateTime' = h.st.lastUpdateTime
           /\ lastDiscordStatusTime' = h.st.lastDiscordStatusTime
           /\ obs' = [kind |-> "frame", env |-> env] @@ h.obs
    /\ phase' = "handled"
    /\ UNCHANGED <<raceVars, config, now, connVars>>

\* the handler's goroutine ends: the frame and what was built from it are dropped
HandlerReturn ==
    /\ phase = "handled"
    /\ phase' = "listening"
    /\ obs' = NoObs
    /\ UNCHANGED <<raceVars, config, cacheVars, now, connVars>>

Startup ==
    \E sysResp \in {Failed("status"), Ok(StartupSystemsData)},
       charResp \in {Failed("status"), Ok(StartupCharactersData)} :
        StartListening(sysResp, charResp, "ok")

Handle ==
    \/ \E raw \in RawMessages, env \in Envs : HandleZKillMessage(raw, env)
    \/ \E raw \in KillFrames, env \in KillEnvs : HandleZKillMessage(raw, env)
    \/ \E raw \in RefreshFrames, env \in RefreshEnvs : HandleZKillMessage(raw, env)

Next == Startup \/ Tick \/ Handle \/ HandlerReturn

Spec == Init /\ [][Next]_vars

----------------------------------------------------------------------------
(* What the claims speak of, read off the handled frame *)

\* a frame was parsed and handled to its return
FrameHandled == phase = "handled" /\ obs.kind = "frame" /\ obs.parsed

\* the classification the handling amounts to
Classification ==
    IF obs.matchedCorpKill THEN (IF obs.isKill THEN "Kill" ELSE "Loss")
    ELSE IF obs.chain THEN "SystemMatch"
    ELSE "None"

TrackedIds == Range(config.InsightTrackedIds)

LocalCharacterIds == {mapCharacters[k].CharacterId : k \in 1..Len(mapCharacters)}

VictimOnWatchlist(zm) ==
    zm.Victim.CorporationID \in TrackedIds \/ zm.Victim.AllianceID \in TrackedIds

AttackerOnWatchlist(zm) ==
    \E a \in Range(zm.Attackers) :
        a.CorporationID \in TrackedIds \/ a.AllianceID \in TrackedIds

AttackerIsLocal(zm) ==
    \E a \in Range(zm.Attackers) : ToString(a.CharacterID) \in LocalCharacterIds

MonitoredSystemIds == {systems[k].SystemId : k \in 1..Len(systems)}

\* the requests of the handled frame sent to one webhook channel
SinkCalls(channel) ==
    {i \in 1..Len(obs.calls) :
        /\ obs.calls[i].api = "sink"
        /\ obs.calls[i].webhook = <<WebhookId(config, channel),
                                    WebhookToken(config, channel)>>}

\* the requests of the handled frame to ESI of one kind
EsiCalls(kinds) ==
    {i \in 1..Len(obs.calls) : obs.calls[i].api = "esi" /\ obs.calls[i].kind \in kinds}

NameKinds == {"system", "type", "character", "corporation", "alliance"}

\* the requests of the handled frame to the map API
MapApiCalls == {i \in 1..Len(obs.calls) : obs.calls[i].api = "mapapi"}

----------------------------------------------------------------------------
(* Classification: C1, C2, C3 *)

\* C1: a frame whose victim's corporation or alliance id is on the watchlist is
\* handled as a Loss, whatever its attackers: sendCorpKillMessage is called with
\* isKill false, the embed carries the loss colour and no chain alert is sent.
C1_VictimMatchIsLoss ==
    (FrameHandled /\ VictimOnWatchlist(obs.raw.zm)) =>
        /\ Classification = "Loss"
        /\ Len(obs.corp) = 1
        /\ obs.corp[1].embed.Color = parseHexColor(config.DiscordKillNotifications.LossColor)
        /\ Cardinality(SinkCalls("corpkill")) = 1
        /\ SinkCalls("chain") = {}

\* C1's case: a Loss whose attackers match the watchlist and the local characters
C1_Witness ==
    /\ FrameHandled
    /\ VictimOnWatchlist(obs.raw.zm)
    /\ AttackerOnWatchlist(obs.raw.zm)
    /\ AttackerIsLocal(obs.raw.zm)
    /\ Classification = "Loss"

\* C2: a frame whose victim is not on the watchlist, with an attacker whose
\* corporation or alliance id is on the watchlist or whose character id is a local
\* character, is handled as a Kill: sendCorpKillMessage is called with isKill true.
C2_AttackerMatchIsKill ==
    (/\ FrameHandled
     /\ ~VictimOnWatchlist(obs.raw.zm)
     /\ (AttackerOnWatchlist(obs.raw.zm) \/ AttackerIsLocal(obs.raw.zm))) =>
        /\ Classification = "Kill"
        /\ Len(obs.corp) = 1
        /\ obs.corp[1].embed.Color = parseHexColor(config.DiscordKillNotifications.KillColor)
        /\ obs.corp[1].embed.Author.Name = "Kill"
        /\ SinkCalls("chain") = {}

\* C2's case: a Kill that rests on a local character alone
C2_Witness ==
    /\ FrameHandled
    /\ ~VictimOnWatchlist(obs.raw.zm)
    /\ ~AttackerOnWatchlist(obs.raw.zm)
    /\ AttackerIsLocal(obs.raw.zm)
    /\ Classification = "Kill"

\* C3: a frame that matches neither the victim rule nor the attacker rule is a
\* SystemMatch, with one chain alert sent, when its solar system is in the system
\* list and not on the ignore list and no attacker is a local character; in every
\* other case it is None and nothing is sent to the chain or corp kill channel.
C3_SystemMatchOrNone ==
    (/\ FrameHandled
     /\ ~VictimOnWatchlist(obs.raw.zm)
     /\ ~AttackerOnWatchlist(obs.raw.zm)
     /\ ~AttackerIsLocal(obs.raw.zm)) =>
        IF /\ obs.raw.zm.SolarSystemID \in MonitoredSystemIds
           /\ obs.raw.zm.SolarSystemID \notin Range(config.IgnoreSystemIds)
           /\ ~AttackerIsLocal(obs.raw.zm)
        THEN /\ Classification = "SystemMatch"
             /\ Cardinality(SinkCalls("chain")) = 1
             /\ SinkCalls("corpkill") = {}
        ELSE /\ Classification = "None"
             /\ SinkCalls("chain") = {}
             /\ SinkCalls("corpkill") = {}

\* C3's case: a frame with attackers, none matching, in a system of the list: one
\* chain alert is sent
C3_Witness ==
    /\ FrameHandled
    /\ ~VictimOnWatchlist(obs.raw.zm)
    /\ ~AttackerOnWatchlist(obs.raw.zm)
    /\ obs.raw.zm.Attackers # <<>>
    /\ obs.raw.zm.SolarSystemID \in MonitoredSystemIds
    /\ Classification = "SystemMatch"
    /\ Cardinality(SinkCalls("chain")) = 1

----------------------------------------------------------------------------
(* The requests of one frame: C4, C5 *)

\* the frame's solar system is not in the system list and nothing of it is on the
\* watchlist or among the local characters
NoOverlap ==
    /\ FrameHandled
    /\ obs.raw.zm.SolarSystemID \notin MonitoredSystemIds
    /\ ~VictimOnWatchlist(obs.raw.zm)
    /\ ~AttackerOnWatchlist(obs.raw.zm)
    /\ ~AttackerIsLocal(obs.raw.zm)

\* C4 as stated: handling a frame with no overlap makes no request at all, neither
\* to ESI or the map API nor to any Discord webhook.
C4_NoOverlapNoRequest ==
    NoOverlap => obs.calls = <<>>

\* C4: handling a frame with no overlap fetches no killmail, looks up no name and
\* sends no kill, loss or chain message; the requests it makes are the status
\* message, the fetch of the system list and the info message of a failed fetch.
C4_NoOverlapNoKillRequest ==
    NoOverlap =>
        /\ EsiCalls(NameKinds \cup {"killmail"}) = {}
        /\ SinkCalls("corpkill") = {}
        /\ SinkCalls("chain") = {}
        /\ \A i \in 1..Len(obs.calls) :
               \/ i \in SinkCalls("info")
               \/ obs.calls[i] = [api |-> "mapapi", kind |-> "systems"]

\* C4's case: a frame with no overlap whose handling sent the status message and
\* fetched the system list
C4_Witness ==
    /\ NoOverlap
    /\ obs.raw.zm.Attackers # <<>>
    /\ obs.refreshed
    /\ SinkCalls("info") # {}
    /\ MapApiCalls # {}

\* C5: handling one frame calls sendCorpKillMessage at most once, fetches at most
\* one killmail, and sends at most one message to the corp kill and chain channels
\* together, so never a kill or loss message and a chain alert both.
C5_AtMostOneNotification ==
    FrameHandled =>
        /\ Len(obs.corp) <= 1
        /\ Cardinality(EsiCalls({"killmail"})) <= 1
        /\ Cardinality(SinkCalls("corpkill") \cup SinkCalls("chain")) <= 1
        /\ ~(obs.matchedCorpKill /\ obs.chain)

\* C5's case: a Kill in a system of the list that is not ignored, with no local
\* attacker, where the chain alert would apply as well
C5_Witness ==
    /\ FrameHandled
    /\ Classification = "Kill"
    /\ obs.raw.zm.SolarSystemID \in MonitoredSystemIds
    /\ obs.raw.zm.SolarSystemID \notin Range(config.IgnoreSystemIds)
    /\ ~AttackerIsLocal(obs.raw.zm)
    /\ Cardinality(SinkCalls("corpkill")) = 1
    /\ SinkCalls("chain") = {}

----------------------------------------------------------------------------
(* The enrichment of a kill or loss: C8, C9 *)

\* sendCorpKillMessage ran for the handled frame
CorpKillHandled == FrameHandled /\ obs.corp # <<>>

\* C8: when the killmail fetch of a kill or loss fails (transport error, status
\* other than 200, or a body that does not decode), nothing is sent to the corp
\* kill channel for the frame and no other request follows the failed fetch.
C8_FetchFailureDropsEvent ==
    (CorpKillHandled /\ obs.corp[1].kdErr \in {"neterr", "status", "decode"}) =>
        /\ SinkCalls("corpkill") = {}
        /\ EsiCalls(NameKinds) = {}

\* the names the description and the title of the embed show
RenderedNames ==
    [victimChar |-> obs.corp[1].embed.Description.victimCharName,
     victimGroup |-> obs.corp[1].embed.Description.victimGroupName,
     victimShip |-> obs.corp[1].embed.Description.victimShipName,
     finalChar |-> obs.corp[1].embed.Description.finalAttackerName,
     finalGroup |-> obs.corp[1].embed.Description.attackerGroupName,
     finalShip |-> obs.corp[1].embed.Description.finalAttackerShip]

\* the field of the embed that shows the name of a lookup, and its stand-in label
FieldOf(slot) ==
    CASE slot = "victimChar" -> "victimChar"
      [] slot = "victimShip" -> "victimShip"
      [] slot = "finalChar" -> "finalChar"
      [] slot = "finalShip" -> "finalShip"
      [] slot \in {"victimCorp", "victimAlli"} -> "victimGroup"
      [] slot \in {"finalCorp", "finalAlli"} -> "finalGroup"

StandIn(field) ==
    CASE field = "victimChar" -> "UnknownVictim"
      [] field = "finalChar" -> "UnknownAttacker"
      [] field \in {"victimShip", "finalShip"} -> "UnknownShip"
      [] field \in {"victimGroup", "finalGroup"} -> "UnknownGroup"

\* the lookup of the slot decides a name the embed shows: a corporation name is
\* shown only when there is no alliance
SlotIsRendered(slot, km) ==
    CASE slot = "victimCorp" -> km.Victim.AllianceID <= 0
      [] slot = "finalCorp" -> finalAttacker(km.Attackers).AllianceID <= 0
      [] slot = "victimAlli" -> km.Victim.AllianceID > 0
      [] slot = "finalAlli" -> finalAttacker(km.Attackers).AllianceID > 0
      [] OTHER -> TRUE

\* C9: when the killmail was fetched and one name lookup other than the system's
\* fails, the embed is still sent, the field of that lookup shows its stand-in
\* label, the other fields show names, and no field is the empty string.
C9_StandInForFailedLookup ==
    (/\ CorpKillHandled
     /\ obs.corp[1].kdErr = "nil"
     /\ \E slot \in LookupSlots \ {"system"} : obs.env.fails = {slot}) =>
        /\ Cardinality(SinkCalls("corpkill")) = 1
        /\ \A f \in DOMAIN RenderedNames : RenderedNames[f] # ""
        /\ \A slot \in obs.env.fails :
               SlotIsRendered(slot, obs.env.killmail.km) =>
                   /\ RenderedNames[FieldOf(slot)] = StandIn(FieldOf(slot))
                   /\ \A f \in DOMAIN RenderedNames \ {FieldOf(slot)} :
                          RenderedNames[f] # StandIn(f)

----------------------------------------------------------------------------
(* The connection: connectAndListenZKill, readLoop, Close and main *)

\* reconnectDelay, in seconds
reconnectDelay == 10

\* main's time.Sleep between Close and its return, in seconds
exitDelay == 1

connState == <<wsConn, wsCancelFunc, connOpen, cancelled>>

\* the connect loop runs: StartListening has started it and the process lives
LoopRuns == phase = "listening" /\ ~exited

\* line 82: a fresh context and its cancel function
LoopNewContext ==
    /\ LoopRuns /\ lpc = "top"
    /\ dials < MaxDials
    /\ loopCtx' = dials + 1
    /\ lpc' = "lockCancel"
    /\ UNCHANGED <<raceVars, subscribed, config, cacheVars, now, phase, obs, mu, wsConn, wsCancelFunc,
                   loopConn, dials, connOpen, cancelled, cpc, sleepLeft, exitLeft,
                   exited, inflight, fault, sinceClose>>

\* lines 83 and 94: ck.mu.Lock()
LoopLock ==
    /\ LoopRuns /\ lpc \in {"lockCancel", "lockConn"}
    /\ mu = "free"
    /\ mu' = "loop"
    /\ lpc' = (IF lpc = "lockCancel" THEN "setCancel" ELSE "setConn")
    /\ UNCHANGED <<raceVars, subscribed, config, cacheVars, now, phase, obs, wsConn, wsCancelFunc, loopCtx,
                   loopConn, dials, connOpen, cancelled, cpc, sleepLeft, exitLeft,
                   exited, inflight, fault, sinceClose>>

\* lines 84-85: ck.wsCancelFunc = cancel; ck.mu.Unlock(). Nothing refers to the
\* context of the iteration before any more, and it is forgotten
LoopStoreCancel ==
    /\ LoopRuns /\ lpc = "setCancel"
    /\ wsCancelFunc' = loopCtx
    /\ cancelled' = cancelled \cap {loopCtx}
    /\ mu' = "free"
    /\ lpc' = "dial"
    /\ UNCHANGED <<raceVars, subscribed, config, cacheVars, now, phase, obs, wsConn, loopCtx,
                   loopConn, dials, connOpen, cpc, sleepLeft, exitLeft, exited,
                   inflight, fault, sinceClose>>

\* line 87: DialContext begins
LoopDial ==
    /\ LoopRuns /\ lpc = "dial"
    /\ dials' = dials + 1
    /\ sinceClose' = [sinceClose EXCEPT !.dialed = @ \/ sinceClose.returned]
    /\ lpc' = "dialing"
    /\ UNCHANGED <<raceVars, subscribed, config, cacheVars, now, phase, obs, mu, wsConn, wsCancelFunc,
                   loopCtx, loopConn, connOpen, cancelled, cpc, sleepLeft, exitLeft,
                   exited, inflight, fault>>

\* A variant of LoopDialed that returns from connectAndListenZKill when the dial
\* fails (a `return` for the `continue` of line 91): C17 rests on the loop going
\* round
LoopDialedReturnsOnError(ok) ==
    /\ LoopRuns /\ lpc = "dialing"
    /\ ok => loopCtx \notin cancelled
    /\ IF ok
       THEN /\ loopConn' = loopCtx
            /\ connOpen' = connOpen \cup {loopCtx}
            /\ sinceClose' = [sinceClose EXCEPT !.opened = @ \/ sinceClose.returned]
            /\ subscribed' = FALSE
            /\ lpc' = "lockConn"
            /\ UNCHANGED sleepLeft
       ELSE /\ sleepLeft' = reconnectDelay
            /\ lpc' = "returned"
            /\ UNCHANGED <<loopConn, connOpen, sinceClose, subscribed>>
    /\ UNCHANGED <<raceVars, config, cacheVars, now, phase, obs, mu, wsConn,
                   wsCancelFunc, loopCtx, dials, cancelled, cpc, exitLeft, exited,
                   inflight, fault>>

\* lines 87-92: DialContext returns. It fails when its context is cancelled, and may
\* fail anyway; a failed dial is followed by the sleep and the next iteration.
LoopDialed(ok) ==
    /\ LoopRuns /\ lpc = "dialing"
    /\ ok => loopCtx \notin cancelled
    /\ IF ok
       THEN /\ loopConn' = loopCtx
            /\ connOpen' = connOpen \cup {loopCtx}
            /\ sinceClose' = [sinceClose EXCEPT !.opened = @ \/ sinceClose.returned]
            /\ subscribed' = FALSE
            /\ lpc' = "lockConn"
            /\ UNCHANGED sleepLeft
       ELSE /\ sleepLeft' = reconnectDelay
            /\ lpc' = "sleep"
            /\ UNCHANGED <<loopConn, connOpen, sinceClose, subscribed>>
    /\ UNCHANGED <<raceVars, config, cacheVars, now, phase, obs, mu, wsConn, wsCancelFunc,
                   loopCtx, dials, cancelled, cpc, exitLeft, exited, inflight, fault>>

\* lines 95-96: ck.wsConn = conn; ck.mu.Unlock()
LoopStoreConn ==
    /\ LoopRuns /\ lpc = "setConn"
    /\ wsConn' = loopConn
    /\ mu' = "free"
    /\ lpc' = "subscribe"
    /\ UNCHANGED <<raceVars, subscribed, config, cacheVars, now, phase, obs, wsCancelFunc, loopCtx, loopConn,
                   dials, connOpen, cancelled, cpc, sleepLeft, exitLeft, exited,
                   inflight, fault, sinceClose>>

\* A variant of LoopSubscribe that goes on to readLoop when the write of the sub
\* message failed (the `continue` of line 108 dropped): C16 rests on it
LoopSubscribeNoContinue(ok) ==
    /\ LoopRuns /\ lpc = "subscribe"
    /\ ok => loopConn \in connOpen
    /\ IF ok
       THEN /\ subscribed' = TRUE
            /\ obs' = [kind |-> "opened",
                       calls |-> sendInfoMessage(config, "zkill socket opened.", "ok")]
            /\ lpc' = "read"
            /\ UNCHANGED <<connOpen, sleepLeft>>
       ELSE /\ connOpen' = connOpen \ {loopConn}
            /\ sleepLeft' = reconnectDelay
            /\ lpc' = "read"
            /\ UNCHANGED <<obs, subscribed>>
    /\ UNCHANGED <<raceVars, config, cacheVars, now, phase, mu, wsConn, wsCancelFunc, loopCtx,
                   loopConn, dials, cancelled, cpc, exitLeft, exited, inflight, fault,
                   sinceClose>>

\* lines 99-111: the sub message is written. When the write fails the connection is
\* closed and the loop sleeps; otherwise the info message is sent and readLoop starts.
LoopSubscribe(ok) ==
    /\ LoopRuns /\ lpc = "subscribe"
    /\ ok => loopConn \in connOpen
    /\ IF ok
       THEN /\ subscribed' = TRUE
            /\ obs' = [kind |-> "opened",
                       calls |-> sendInfoMessage(config, "zkill socket opened.", "ok")]
            /\ lpc' = "read"
            /\ UNCHANGED <<connOpen, sleepLeft>>
       ELSE /\ connOpen' = connOpen \ {loopConn}
            /\ sleepLeft' = reconnectDelay
            /\ lpc' = "sleep"
            /\ UNCHANGED <<obs, subscribed>>
    /\ UNCHANGED <<raceVars, config, cacheVars, now, phase, mu, wsConn, wsCancelFunc, loopCtx,
                   loopConn, dials, cancelled, cpc, exitLeft, exited, inflight, fault,
                   sinceClose>>

\* The frame, a loss of the watchlist, and the outcomes the handlers of the
\* connection's frames see
ConnFrames ==
    Frames({Vic(1, 0)}, {<<Att(3, 0, 6)>>}, {31}) \ {[valid |-> FALSE, zm |-> ZeroZkillMail]}

ConnEnvs ==
    [infoResp : {"ok"}, systemsResp : {Ok(RefreshSystemsData)},
     killmail : {[outcome |-> "ok", km |-> BaseKillMail]}, fails : {{}},
     notifyResp : {"ok"}]

\* A variant of LoopReadFrame that reads the next frame only when the handler of
\* the last one has returned (line 134 without its `go`): C19 rests on the goroutine
LoopReadFrameWaits ==
    /\ LoopRuns /\ lpc = "read"
    /\ loopConn \in connOpen
    /\ inflight = 0
    /\ inflight' = inflight + 1
    /\ sinceClose' = [sinceClose EXCEPT !.spawned = @ \/ \E c \in Closers : cpc[c] # "idle"]
    /\ UNCHANGED <<raceVars, subscribed, config, cacheVars, now, phase, obs, mu, wsConn,
                   wsCancelFunc, lpc, loopCtx, loopConn, dials, connOpen, cancelled,
                   cpc, sleepLeft, exitLeft, exited, fault>>

\* lines 130-138 of readLoop: a frame is read and its handler goroutine started; the
\* loop goes on to the next read at once
LoopReadFrame ==
    /\ LoopRuns /\ lpc = "read"
    /\ loopConn \in connOpen
    /\ inflight < MaxHandlers
    /\ inflight' = inflight + 1
    /\ sinceClose' = [sinceClose EXCEPT !.spawned = @ \/ \E c \in Closers : cpc[c] # "idle"]
    /\ UNCHANGED <<raceVars, subscribed, config, cacheVars, now, phase, obs, mu, wsConn,
                   wsCancelFunc, lpc, loopCtx, loopConn, dials, connOpen, cancelled,
                   cpc, sleepLeft, exitLeft, exited, fault>>

\* lines 130-133 of readLoop and 114-117: ReadMessage fails, as it does on a closed
\* connection and may on an open one, and readLoop returns the error
LoopReadError ==
    /\ LoopRuns /\ lpc = "read"
    /\ lpc' = "teardown"
    /\ UNCHANGED <<raceVars, subscribed, config, cacheVars, now, phase, obs, mu, wsConn, wsCancelFunc,
                   loopCtx, loopConn, dials, connOpen, cancelled, cpc, sleepLeft,
                   exitLeft, exited, inflight, fault, sinceClose>>

\* A variant of LoopTeardown without the conn.Close() of line 122: C18 rests on it
LoopTeardownLeavesOpen ==
    /\ LoopRuns /\ lpc = "teardown"
    /\ sleepLeft' = reconnectDelay
    /\ lpc' = "sleep"
    /\ UNCHANGED <<raceVars, subscribed, config, cacheVars, now, phase, obs, mu, wsConn,
                   wsCancelFunc, loopCtx, loopConn, dials, connOpen, cancelled, cpc,
                   exitLeft, exited, inflight, fault, sinceClose>>

\* lines 121-123: conn.Close() and the sleep begins
LoopTeardown ==
    /\ LoopRuns /\ lpc = "teardown"
    /\ connOpen' = connOpen \ {loopConn}
    /\ sleepLeft' = reconnectDelay
    /\ lpc' = "sleep"
    /\ UNCHANGED <<raceVars, subscribed, config, cacheVars, now, phase, obs, mu, wsConn, wsCancelFunc,
                   loopCtx, loopConn, dials, cancelled, cpc, exitLeft, exited,
                   inflight, fault, sinceClose>>

\* lines 90-91, 106-107, 123: time.Sleep(reconnectDelay) returns and the for loop
\* goes round
LoopWake ==
    /\ LoopRuns /\ lpc = "sleep"
    /\ sleepLeft = 0
    /\ lpc' = "top"
    /\ UNCHANGED <<raceVars, subscribed, config, cacheVars, now, phase, obs, mu, wsConn, wsCancelFunc,
                   loopCtx, loopConn, dials, connOpen, cancelled, cpc, sleepLeft,
                   exitLeft, exited, inflight, fault, sinceClose>>

\* lines 134-138 of readLoop: a handler goroutine runs handleZKillMessage and ends.
\* afterClose: it ends after a call of Close returned, and no handler was started
\* since the first call of Close began
HandlerDone(raw, env) ==
    /\ ~exited /\ inflight > 0
    /\ inflight' = inflight - 1
    /\ \E h \in {handleZKillMessage(config, Cache, raw, env, now)} :
           /\ systems' = h.st.systems
           /\ mapCharacters' = h.st.mapCharacters
           /\ lastUpdateTime' = h.st.lastUpdateTime
           /\ lastDiscordStatusTime' = h.st.lastDiscordStatusTime
           /\ obs' = [kind |-> "frame", env |-> env,
                      afterClose |-> sinceClose.returned /\ ~sinceClose.spawned] @@ h.obs
    /\ UNCHANGED <<raceVars, subscribed, config, now, phase, mu, wsConn, wsCancelFunc, lpc, loopCtx,
                   loopConn, dials, connOpen, cancelled, cpc, sleepLeft, exitLeft,
                   exited, fault, sinceClose>>

\* A variant of closeConn without the nil check of line 279: C7 rests on that check
closeConnUnchecked(ws, open, flt) ==
    [connOpen |-> open \ {ws}, fault |-> flt \/ ws = 0]

\* lines 279-281 of Close: the connection of ck.wsConn, when there is one, is
\* closed. Closing a closed connection returns an error that Close drops.
closeConn(ws, open, flt) ==
    IF ws # 0 THEN [connOpen |-> open \ {ws}, fault |-> flt]
    ELSE [connOpen |-> open, fault |-> flt]

\* lines 282-284 of Close: the cancel function of ck.wsCancelFunc, when there is
\* one, is called. Cancelling a cancelled context does nothing.
cancelContext(fn, ctxs, flt) ==
    IF fn # 0 THEN [cancelled |-> ctxs \cup {fn}, fault |-> flt]
    ELSE [cancelled |-> ctxs, fault |-> flt]

\* Close is called: by main on a signal (main.go line 53), by the other caller at
\* any time and any number of times
CloseCall(c) ==
    /\ ~exited
    /\ cpc[c] = "idle" \/ (c # "main" /\ cpc[c] = "returned")
    /\ cpc' = [cpc EXCEPT ![c] = "lock"]
    /\ UNCHANGED <<raceVars, subscribed, config, cacheVars, now, phase, obs, mu, wsConn, wsCancelFunc, lpc,
                   loopCtx, loopConn, dials, connOpen, cancelled, sleepLeft, exitLeft,
                   exited, inflight, fault, sinceClose>>

\* line 277: ck.mu.Lock()
CloseLock(c) ==
    /\ ~exited /\ cpc[c] = "lock"
    /\ mu = "free"
    /\ mu' = c
    /\ cpc' = [cpc EXCEPT ![c] = "conn"]
    /\ UNCHANGED <<raceVars, subscribed, config, cacheVars, now, phase, obs, wsConn, wsCancelFunc, lpc,
                   loopCtx, loopConn, dials, connOpen, cancelled, sleepLeft, exitLeft,
                   exited, inflight, fault, sinceClose>>

\* lines 279-281
CloseConn(c) ==
    /\ ~exited /\ cpc[c] = "conn"
    /\ \E r \in {closeConn(wsConn, connOpen, fault)} :
           connOpen' = r.connOpen /\ fault' = r.fault
    /\ cpc' = [cpc EXCEPT ![c] = "cancel"]
    /\ UNCHANGED <<raceVars, subscribed, config, cacheVars, now, phase, obs, mu, wsConn, wsCancelFunc, lpc,
                   loopCtx, loopConn, dials, cancelled, sleepLeft, exitLeft, exited,
                   inflight, sinceClose>>

\* A variant of CloseCancel whose cancel also ends the handler goroutines: C20 rests
\* on the handlers not running under the context of wsCancelFunc
CloseCancelStopsHandlers(c) ==
    /\ ~exited /\ cpc[c] = "cancel"
    /\ \E r \in {cancelContext(wsCancelFunc, cancelled, fault)} :
           cancelled' = r.cancelled /\ fault' = r.fault
    /\ cpc' = [cpc EXCEPT ![c] = "unlock"]
    /\ inflight' = 0
    /\ UNCHANGED <<raceVars, subscribed, config, cacheVars, now, phase, obs, mu, wsConn,
                   wsCancelFunc, lpc, loopCtx, loopConn, dials, connOpen, sleepLeft,
                   exitLeft, exited, sinceClose>>

\* lines 282-284
CloseCancel(c) ==
    /\ ~exited /\ cpc[c] = "cancel"
    /\ \E r \in {cancelContext(wsCancelFunc, cancelled, fault)} :
           cancelled' = r.cancelled /\ fault' = r.fault
    /\ cpc' = [cpc EXCEPT ![c] = "unlock"]
    /\ UNCHANGED <<raceVars, subscribed, config, cacheVars, now, phase, obs, mu, wsConn, wsCancelFunc, lpc,
                   loopCtx, loopConn, dials, connOpen, sleepLeft, exitLeft, exited,
                   inflight, sinceClose>>

\* line 278, run at the return: ck.mu.Unlock(). Close has returned; main goes on to
\* its time.Sleep (main.go line 54).
CloseReturn(c) ==
    /\ ~exited /\ cpc[c] = "unlock"
    /\ mu' = "free"
    /\ cpc' = [cpc EXCEPT ![c] = IF c = "main" THEN "sleeping" ELSE "returned"]
    /\ exitLeft' = (IF c = "main" THEN exitDelay ELSE exitLeft)
    /\ sinceClose' = [sinceClose EXCEPT !.returned = TRUE]
    /\ UNCHANGED <<raceVars, subscribed, config, cacheVars, now, phase, obs, wsConn, wsCancelFunc, lpc,
                   loopCtx, loopConn, dials, connOpen, cancelled, sleepLeft, exited,
                   inflight, fault>>

\* main.go lines 54-55: the sleep is over and main returns; every goroutine ends
MainReturn ==
    /\ ~exited /\ cpc["main"] = "sleeping"
    /\ exitLeft = 0
    /\ exited' = TRUE
    /\ UNCHANGED <<raceVars, subscribed, config, cacheVars, now, phase, obs, mu, wsConn, wsCancelFunc, lpc,
                   loopCtx, loopConn, dials, connOpen, cancelled, cpc, sleepLeft,
                   exitLeft, inflight, fault, sinceClose>>

\* the sleeps that are running, and the seconds left of each
Sleeps ==
    (IF lpc = "sleep" /\ sleepLeft > 0 THEN {sleepLeft} ELSE {})
    \cup (IF cpc["main"] = "sleeping" /\ exitLeft > 0 THEN {exitLeft} ELSE {})

\* time passes for the threads that sleep, up to the end of the sleep that ends
\* first; main returns when its sleep is over
Elapse ==
    /\ ~exited
    /\ ~(cpc["main"] = "sleeping" /\ exitLeft = 0)
    /\ Sleeps # {}
    /\ sleepLeft' = (IF lpc = "sleep" /\ sleepLeft > 0
                     THEN sleepLeft - Min(Sleeps) ELSE sleepLeft)
    /\ exitLeft' = (IF cpc["main"] = "sleeping" /\ exitLeft > 0
                    THEN exitLeft - Min(Sleeps) ELSE exitLeft)
    /\ UNCHANGED <<raceVars, subscribed, config, cacheVars, now, phase, obs, mu, wsConn, wsCancelFunc, lpc,
                   loopCtx, loopConn, dials, connOpen, cancelled, cpc, exited,
                   inflight, fault, sinceClose>>

StartupConn == ~exited /\ StartListening(Ok(StartupSystemsData), Ok(StartupCharactersData), "ok")

Loop ==
    \/ LoopNewContext \/ LoopLock \/ LoopStoreCancel \/ LoopDial
    \/ \E ok \in BOOLEAN : LoopDialed(ok)
    \/ LoopStoreConn
    \/ \E ok \in BOOLEAN : LoopSubscribe(ok)
    \/ LoopReadFrame \/ LoopReadError \/ LoopTeardown \/ LoopWake

Handlers == \E raw \in ConnFrames, env \in ConnEnvs : HandlerDone(raw, env)

CloseOf(c) == CloseCall(c) \/ CloseLock(c) \/ CloseConn(c) \/ CloseCancel(c) \/ CloseReturn(c)

NextConn ==
    \/ StartupConn
    \/ Loop
    \/ Handlers
    \/ \E c \in Closers : CloseOf(c)
    \/ MainReturn
    \/ Elapse

InitConn == Init /\ config = BaseConfig

SpecConn == InitConn /\ [][NextConn]_vars

\* The mutex is handed to a caller of Close that waits for it (sync.Mutex starves no
\* waiter), and the thread that holds the mutex takes the next step of its critical
\* section
FairConn ==
    /\ \A c \in Closers : SF_vars(CloseLock(c))
    /\ WF_vars(\/ LoopStoreCancel \/ LoopStoreConn
               \/ \E c \in Closers : CloseConn(c) \/ CloseCancel(c) \/ CloseReturn(c))

FairSpecConn == SpecConn /\ FairConn

\* Besides, the goroutine of connectAndListenZKill is scheduled: it takes its next
\* step when it does not wait, it gets the mutex it waits for, and the time of the
\* sleeps passes
LiveConn ==
    /\ FairConn
    /\ SF_vars(LoopLock)
    /\ WF_vars(LoopNewContext \/ LoopDial \/ LoopTeardown \/ LoopWake)
    /\ WF_vars(Elapse \/ MainReturn)

LiveSpecConn == SpecConn /\ LiveConn

----------------------------------------------------------------------------
(* Close: C6, C7 *)

\* C6: once a call of Close has returned, the connect loop begins no dial and
\* opens no connection.
C6_NoDialAfterClose ==
    sinceClose.returned => (~sinceClose.dialed /\ ~sinceClose.opened)

\* a thread is inside Close
InClose(c) == cpc[c] \in {"lock", "conn", "cancel", "unlock"}

\* the mutex is held by a thread inside one of its critical sections, none of which
\* waits for anything
MutexHeldInCriticalSection ==
    /\ mu = "loop" <=> lpc \in {"setCancel", "setConn"}
    /\ \A c \in Closers : mu = c <=> cpc[c] \in {"conn", "cancel", "unlock"}

\* the state a call of Close leaves: the connection of ck.wsConn, if any, closed and
\* the context of ck.wsCancelFunc, if any, cancelled
Closed ==
    /\ wsConn = 0 \/ wsConn \notin connOpen
    /\ wsCancelFunc = 0 \/ wsCancelFunc \in cancelled

\* C7: Close may be called any number of times, by several threads, while
\* connectAndListenZKill runs and before a connection exists: it calls no nil
\* connection or cancel function, it holds the mutex only inside its critical
\* section and every call returns (unless the process ends first), it leaves the
\* connection closed and the context cancelled, and a call made in that state
\* changes nothing of the connection state.
C7_CloseIdempotentAndSafe ==
    /\ [](~fault)
    /\ []MutexHeldInCriticalSection
    /\ [](\A c \in Closers : cpc[c] = "unlock" => Closed)
    /\ [][(Closed /\ \E c \in Closers : CloseOf(c)) => UNCHANGED connState]_vars
    /\ \A c \in Closers : InClose(c) ~> (~InClose(c) \/ exited)

\* C7's case: a second call of Close, made while the connection is open, waits for
\* the mutex that the first call holds, while the connect loop waits for it too
C7_Witness ==
    /\ ~exited
    /\ cpc["other"] = "returned"
    /\ cpc["main"] = "lock"
    /\ lpc = "lockCancel"
    /\ sinceClose.returned
    /\ wsConn # 0

\* C7's other case: Close runs before any connection exists
C7_WitnessNoConnection ==
    /\ ~exited
    /\ cpc["main"] = "cancel"
    /\ wsConn = 0
    /\ wsCancelFunc = 0

----------------------------------------------------------------------------
(* Handlers side by side: readLoop starts one goroutine per frame, and the steps of
   handleZKillMessage of several frames interleave. No lock guards ck.systems,
   ck.lastUpdateTime or ck.lastDiscordStatusTime. *)

\* The frames of the handlers that run side by side: no victim or attacker of the
\* watchlist, in a system of the startup list or in one of the refreshed list
RaceFrames == Frames({Vic(3, 0)}, {<<Att(3, 0, 6)>>}, {31, 32})

\* The responses of the map API to the refresh of a handler
RaceResponses == {Failed("status"), Ok(RefreshSystemsData), Ok(<<>>)}

SetHandler(h, rec) == handlers' = [handlers EXCEPT ![h] = rec]

RaceRuns(h, pc) == phase = "listening" /\ ~crashed /\ handlers[h].pc = pc

\* lines 143-147: the goroutine of a frame starts and the frame is parsed
RaceStart(h, raw) ==
    /\ RaceRuns(h, "idle")
    /\ SetHandler(h, [handlers[h] EXCEPT
                         !.raw = raw,
                         !.pc = IF Unmarshal(raw).err THEN "done" ELSE "status"])
    /\ UNCHANGED <<config, cacheVars, now, phase, obs, connVars, sysGen, crashed>>

\* lines 150-151: ck.lastDiscordStatusTime is read and compared
RaceStatusCheck(h) ==
    /\ RaceRuns(h, "status")
    /\ SetHandler(h, IF MinutesSince(now, lastDiscordStatusTime)
                          > config.DiscordStatusReportMins
                      THEN [handlers[h] EXCEPT !.statusSince = <<lastDiscordStatusTime>>,
                                               !.pc = "statusSend"]
                      ELSE [handlers[h] EXCEPT !.pc = "refresh"])
    /\ UNCHANGED <<config, cacheVars, now, phase, obs, connVars, sysGen, crashed>>

\* lines 152-153: ck.lastDiscordStatusTime is written and the status message sent
RaceStatusSend(h) ==
    /\ RaceRuns(h, "statusSend")
    /\ lastDiscordStatusTime' = now
    /\ SetHandler(h, [handlers[h] EXCEPT !.status = TRUE, !.pc = "refresh"])
    /\ UNCHANGED <<config, systems, mapCharacters, lastUpdateTime, now, phase, obs,
                   connVars, sysGen, crashed>>

\* lines 157-160: ck.lastUpdateTime is read and compared
RaceRefreshCheck(h) ==
    /\ RaceRuns(h, "refresh")
    /\ SetHandler(h, [handlers[h] EXCEPT
                         !.pc = IF MinutesSince(now, lastUpdateTime) > minToGetLatestSystems
                                THEN "fetch" ELSE "match"])
    /\ UNCHANGED <<config, cacheVars, now, phase, obs, connVars, sysGen, crashed>>

\* lines 288-338 of updateSystems: the request, and the new list built from its
\* body; an error ends updateSystems with the cache as it was
RaceFetch(h, resp) ==
    /\ RaceRuns(h, "fetch")
    /\ \E u \in {updateSystems(config, Cache, resp, "ok", now)} :
           SetHandler(h, [handlers[h] EXCEPT
                             !.fetched = u.st.systems,
                             !.pc = IF u.err = "nil" THEN "write" ELSE "match"])
    /\ UNCHANGED <<config, cacheVars, now, phase, obs, connVars, sysGen, crashed>>

\* line 339 of updateSystems: ck.systems = newSystems
RaceWriteSystems(h) ==
    /\ RaceRuns(h, "write")
    /\ systems' = handlers[h].fetched
    /\ sysGen' = h
    /\ SetHandler(h, [handlers[h] EXCEPT !.pc = "stamp"])
    /\ UNCHANGED <<config, mapCharacters, lastUpdateTime, lastDiscordStatusTime, now,
                   phase, obs, connVars, crashed>>

\* line 340 of updateSystems: ck.lastUpdateTime = time.Now()
RaceStamp(h) ==
    /\ RaceRuns(h, "stamp")
    /\ lastUpdateTime' = now
    /\ SetHandler(h, [handlers[h] EXCEPT !.pc = "match"])
    /\ UNCHANGED <<config, systems, mapCharacters, lastDiscordStatusTime, now, phase,
                   obs, connVars, sysGen, crashed>>

\* lines 184-212: the loop over ck.mapCharacters runs for an attacker that the
\* watchlist did not match, when the victim did not match and no earlier attacker did
ReadsMapCharacters(zm, tracked, chars) ==
    /\ ~VictimMatch(zm, tracked)
    /\ \E i \in 1..Len(zm.Attackers) :
           /\ ~AttackerMatches(zm.Attackers[i], tracked, <<>>)
           /\ \A j \in 1..(i - 1) : ~AttackerMatches(zm.Attackers[j], tracked, chars)

\* lines 166-233: the match on the watchlist and ck.mapCharacters, and
\* sendCorpKillMessage for a matched kill
RaceMatch(h) ==
    /\ RaceRuns(h, "match")
    /\ \E mt \in {MatchCorpKill(handlers[h].raw.zm, config.InsightTrackedIds,
                                mapCharacters)} :
           SetHandler(h, [handlers[h] EXCEPT
               !.chrGens = IF ReadsMapCharacters(handlers[h].raw.zm,
                                                 config.InsightTrackedIds, mapCharacters)
                           THEN @ \cup {0} ELSE @,
               !.out = IF mt.matchedCorpKill THEN "corp" ELSE @,
               !.pc = IF mt.matchedCorpKill THEN "done" ELSE "range"])
    /\ UNCHANGED <<config, cacheVars, now, phase, obs, connVars, sysGen, crashed>>

\* What a read of ck.systems by handler h may give: the list last written, or the
\* list another handler is writing at line 339, the read and that write being
\* unordered. Each comes with the refresh it is of.
Views(h) ==
    {[list |-> systems, gen |-> sysGen]}
    \cup {[list |-> handlers[w].fetched, gen |-> w] :
            w \in {x \in Racers \ {h} : handlers[x].pc = "write"}}

\* line 236: range ck.systems reads the list once, for its length
RaceRange(h) ==
    /\ RaceRuns(h, "range")
    /\ \E v \in Views(h) :
           SetHandler(h, [handlers[h] EXCEPT
               !.n = Len(v.list), !.i = 1,
               !.sysGens = @ \cup {v.gen},
               !.pc = "iter"])
    /\ UNCHANGED <<config, cacheVars, now, phase, obs, connVars, sysGen, crashed>>

\* lines 236-241: one iteration. ck.systems is read again for ck.systems[i], and
\* once more for &ck.systems[i]; an index past the end of the list read panics.
RaceIter(h) ==
    /\ RaceRuns(h, "iter")
    /\ IF handlers[h].i > handlers[h].n
       THEN SetHandler(h, [handlers[h] EXCEPT !.pc = "chain"]) /\ UNCHANGED crashed
       ELSE \E v \in Views(h), p \in Views(h) :
              IF handlers[h].i > Len(v.list)
              THEN crashed' = TRUE /\ UNCHANGED handlers
              ELSE IF v.list[handlers[h].i].SystemId # handlers[h].raw.zm.SolarSystemID
              THEN /\ SetHandler(h, [handlers[h] EXCEPT
                          !.i = @ + 1, !.sysGens = @ \cup {v.gen}])
                   /\ UNCHANGED crashed
              ELSE IF handlers[h].i > Len(p.list)
              THEN crashed' = TRUE /\ UNCHANGED handlers
              ELSE /\ SetHandler(h, [handlers[h] EXCEPT
                          !.m = <<p.list[handlers[h].i]>>,
                          !.sysGens = @ \cup {v.gen, p.gen},
                          !.pc = "chain"])
                   /\ UNCHANGED crashed
    /\ UNCHANGED <<config, cacheVars, now, phase, obs, connVars, sysGen>>

\* lines 244-271: the ignore list, the attackers against ck.mapCharacters, and the
\* chain message
RaceChain(h) ==
    /\ RaceRuns(h, "chain")
    /\ IF /\ handlers[h].m # <<>>
          /\ ~Contains(config.IgnoreSystemIds, handlers[h].m[1].SystemId)
       THEN SetHandler(h, [handlers[h] EXCEPT
                !.chrGens = IF handlers[h].raw.zm.Attackers # <<>>
                            THEN @ \cup {0} ELSE @,
                !.out = IF foundMappedAttacker(handlers[h].raw.zm, mapCharacters)
                        THEN @ ELSE "chain",
                !.pc = "done"])
       ELSE SetHandler(h, [handlers[h] EXCEPT !.pc = "done"])
    /\ UNCHANGED <<config, cacheVars, now, phase, obs, connVars, sysGen, crashed>>

RaceStep(h) ==
    \/ \E raw \in RaceFrames : RaceStart(h, raw)
    \/ RaceStatusCheck(h) \/ RaceStatusSend(h) \/ RaceRefreshCheck(h)
    \/ \E resp \in RaceResponses : RaceFetch(h, resp)
    \/ RaceWriteSystems(h) \/ RaceStamp(h)
    \/ RaceMatch(h) \/ RaceRange(h) \/ RaceIter(h) \/ RaceChain(h)

NextRace ==
    \/ StartupConn
    \/ Tick
    \/ \E h \in Racers : RaceStep(h)

SpecRace == InitConn /\ [][NextRace]_vars

----------------------------------------------------------------------------
(* The cache under concurrent handlers: C10 *)

\* C10: the lists a handler has read for one classification are of one refresh:
\* every read of ck.systems and of ck.mapCharacters it made came from the same
\* refresh (StartListening's is 0), whatever the other handlers refreshed.
C10_OneSnapshotPerDecision ==
    \A h \in Racers :
        handlers[h].pc \in {"chain", "done"} =>
            Cardinality(handlers[h].sysGens \cup handlers[h].chrGens) <= 1

----------------------------------------------------------------------------
(* The refresh of the cache: C11, C12, C13 *)

\* the handlers that are between the end of their fetch and the end of the writes
\* of lines 339-340
Swapping == {h \in Racers : handlers[h].pc \in {"write", "stamp"}}

\* C11: at most one handler is replacing the cache at a time, and a handler that
\* is writing ck.systems and ck.lastUpdateTime holds the mutex.
C11_RefreshSwapExclusive ==
    /\ Cardinality(Swapping) <= 1
    /\ Swapping # {} => mu # "free"

\* C12: every refresh fetches, and on success replaces, both lists: the startup
\* refresh and the refresh made while a frame is handled each request the systems
\* and the characters of the map API.
C12_RefreshReplacesBothLists ==
    /\ obs.kind = "startup" =>
           {obs.calls[i].kind : i \in MapApiCalls} = {"systems", "characters"}
    /\ (FrameHandled /\ obs.refreshed) =>
           {obs.calls[i].kind : i \in MapApiCalls} = {"systems", "characters"}

\* a frame is handled in this step
HandlesFrame == phase = "listening" /\ phase' = "handled" /\ obs'.parsed

\* C13: while a frame is handled the system list is refreshed exactly when more
\* than minToGetLatestSystems minutes have passed since the last refresh; the
\* threshold being zero, whenever any time at all has passed.
C13_RefreshWhenElapsed ==
    [][HandlesFrame =>
          (obs'.refreshed <=>
              (now - lastUpdateTime) > minToGetLatestSystems * TicksPerMinute)]_vars

----------------------------------------------------------------------------
(* The outcome of a refresh: C14, C15 *)

\* C14: a refresh that fails while a frame is handled (the request cannot be built
\* or sent, the status is not 200, or the body cannot be decoded) leaves the system
\* list, the local characters and the time of the last refresh as they were, and
\* the handler goes on to its return: the frame gets its chain alert exactly when
\* the list of before the refresh calls for it.
C14_FailedRefreshKeepsSnapshot ==
    [][(HandlesFrame /\ obs'.refreshed /\ obs'.refreshErr # "nil") =>
          /\ systems' = systems
          /\ mapCharacters' = mapCharacters
          /\ lastUpdateTime' = lastUpdateTime
          /\ obs'.chain <=>
                /\ ~obs'.matchedCorpKill
                /\ obs'.raw.zm.SolarSystemID \in MonitoredSystemIds
                /\ obs'.raw.zm.SolarSystemID \notin Range(config.IgnoreSystemIds)
                /\ ~AttackerIsLocal(obs'.raw.zm)]_vars

\* C14's case: the body of the refresh could not be decoded, the list is still the
\* one of the startup, and the frame in J100 got its chain alert
C14_Witness ==
    /\ FrameHandled
    /\ obs.refreshed
    /\ obs.refreshErr = "decode"
    /\ systems = <<[SystemId |-> 31, Alias |-> "J100"]>>
    /\ obs.raw.zm.SolarSystemID = 31
    /\ Classification = "SystemMatch"
    /\ Cardinality(SinkCalls("chain")) = 1

\* the last character of a name is an ASCII letter
EndsInLetter(name) ==
    \E c \in Letters : SubSeq(name, Len(name), Len(name)) = c

\* the entries of a fetched body that have a name not ending in a letter, in the
\* order of the body, as entries of the system list
ListedEntries(data) ==
    LET kept == SelectSeq(data, LAMBDA d : d.Name # "" /\ ~EndsInLetter(d.Name))
    IN  [k \in 1..Len(kept) |->
            [SystemId |-> kept[k].SolarSystemId, Alias |-> kept[k].Name]]

\* C15: after a successful refresh, at startup or while a frame is handled, the
\* system list is exactly the fetched entries whose alias is not empty and does not
\* end in an ASCII letter, in the order fetched; and the list never holds an entry
\* whose alias is empty or ends in a letter.
C15_RefreshKeepsFilteredEntries ==
    [][/\ \A k \in 1..Len(systems') :
              systems'[k].Alias # "" /\ ~EndsInLetter(systems'[k].Alias)
       /\ (HandlesFrame /\ obs'.refreshed /\ obs'.refreshErr = "nil") =>
              systems' = ListedEntries(obs'.env.systemsResp.data)
       /\ (phase = "new" /\ phase' = "listening" /\ obs'.systemsErr = "nil") =>
              systems' = ListedEntries(StartupSystemsData)]_vars

\* C15's case: the refresh fetched five entries, one without a name, one ending in
\* a capital and one in a small letter, and the list is the other two, in order
C15_Witness ==
    /\ FrameHandled
    /\ obs.refreshed
    /\ obs.refreshErr = "nil"
    /\ Len(obs.env.systemsResp.data) = 5
    /\ \E k \in 1..5 : obs.env.systemsResp.data[k].Name = "J5Z"
    /\ \E k \in 1..5 : obs.env.systemsResp.data[k].Name = "Thera"
    /\ systems = <<[SystemId |-> 32, Alias |-> "J200"],
                   [SystemId |-> 31, Alias |-> "C3-A1"]>>

----------------------------------------------------------------------------
(* The connect loop: C16, C17, C18 *)

\* C16: a frame is read only from a connection on which the sub message was
\* written, and readLoop runs only on such a connection; when the write of the sub
\* message fails the connection is closed, readLoop is not entered and the loop
\* sleeps reconnectDelay, after which, and not before, it goes round to the next
\* dial.
C16_SubscribeBeforeRead ==
    [][/\ inflight' > inflight => (lpc = "read" /\ subscribed)
       /\ lpc' = "read" => subscribed'
       /\ lpc' \in {"lockConn", "setConn", "subscribe"} => ~subscribed'
       /\ (lpc = "subscribe" /\ lpc' # "subscribe" /\ ~subscribed') =>
              /\ loopConn \notin connOpen'
              /\ lpc' = "sleep"
              /\ sleepLeft' = reconnectDelay
       /\ (lpc = "sleep" /\ lpc' # "sleep") => (sleepLeft = 0 /\ lpc' = "top")]_vars

\* C16's case: the first connection was subscribed and a frame read from it; on the
\* second the write of the sub message failed, and the loop sleeps with that
\* connection closed
C16_Witness ==
    /\ inflight > 0
    /\ loopConn = 2 /\ dials = 2
    /\ ~subscribed
    /\ loopConn \notin connOpen
    /\ lpc = "sleep"
    /\ sleepLeft = reconnectDelay

\* C17: a failed dial, a failed write of the sub message and a failed read each
\* leave the loop asleep for reconnectDelay with the connection closed, and from
\* that sleep the loop always comes to its next dial, however many dials there
\* were; nothing but the return of main ends the loop or the process.
C17_AlwaysRedials ==
    /\ [][/\ (lpc = "dialing" /\ lpc' \notin {"dialing", "lockConn"}) =>
                 (lpc' = "sleep" /\ sleepLeft' = reconnectDelay)
          /\ (lpc = "subscribe" /\ lpc' \notin {"subscribe", "read"}) =>
                 (lpc' = "sleep" /\ sleepLeft' = reconnectDelay)
          /\ (lpc = "read" /\ lpc' # "read") => lpc' = "teardown"
          /\ (lpc = "teardown" /\ lpc' # "teardown") =>
                 (lpc' = "sleep" /\ sleepLeft' = reconnectDelay)
          /\ lpc' = "sleep" => loopConn' \notin connOpen'
          /\ (exited' /\ ~exited) => (cpc["main"] = "sleeping" /\ exitLeft = 0)]_vars
    /\ [](lpc \in {"top", "lockCancel", "setCancel", "dial", "dialing", "lockConn",
                   "setConn", "subscribe", "read", "teardown", "sleep"})
    /\ (lpc \in {"teardown", "sleep"} /\ dials < MaxDials) ~> (lpc = "dialing" \/ exited)

\* C17's case: the first connection was read from and lost, and the loop, having
\* slept, dials again
C17_Witness ==
    /\ ~exited
    /\ loopConn = 1 /\ subscribed
    /\ 1 \notin connOpen
    /\ dials = 2
    /\ lpc = "dialing"

\* C18: at most one connection to the feed is open at any time, the one of the
\* current iteration of the one connect loop, on which alone frames are read; and
\* while the loop sleeps, makes its context and dials, no connection is open: the
\* connection of the iteration before was closed first.
C18_SingleConnection ==
    /\ Cardinality(connOpen) <= 1
    /\ connOpen \subseteq {loopConn}
    /\ lpc \in {"sleep", "top", "lockCancel", "setCancel", "dial", "dialing"} =>
           connOpen = {}

\* C18's case: the second connection has just been opened and subscribed, while a
\* handler of a frame of the first one, which is closed, still runs
C18_Witness ==
    /\ inflight > 0
    /\ dials = 2
    /\ loopConn = 2
    /\ connOpen = {2}
    /\ lpc = "read"
    /\ obs.kind = "opened"

----------------------------------------------------------------------------
(* The handler goroutines of readLoop: C19, C20 *)

\* C19: readLoop does not wait for a handler: the step that reads a frame leaves
\* the loop at its next read, and while the connection is open the next frame can
\* be read however many handlers of earlier frames have not returned.
C19_ReadLoopNeverWaits ==
    /\ [][inflight' > inflight =>
             (lpc = "read" /\ lpc' = "read" /\ inflight' = inflight + 1)]_vars
    /\ [](\A n \in 0..(MaxHandlers - 1) :
             (LoopRuns /\ lpc = "read" /\ loopConn \in connOpen /\ inflight = n) =>
                 ENABLED LoopReadFrame)

\* C19's case: two frames were read, the handler of neither has returned, and the
\* loop is at its next read on the open connection
C19_Witness ==
    /\ LoopRuns
    /\ lpc = "read"
    /\ loopConn \in connOpen
    /\ inflight = 2

\* the handler whose return is this step sent one message to the corp kill webhook
SentCorpKill ==
    Cardinality({i \in 1..Len(obs'.calls) :
                    /\ obs'.calls[i].api = "sink"
                    /\ obs'.calls[i].webhook = <<WebhookId(config, "corpkill"),
                                                WebhookToken(config, "corpkill")>>}) = 1

\* C20: no step of Close ends a handler. The handlers in flight are as many after
\* each step of Close as before, and a handler leaves only by its own return,
\* before or after Close, having classified its frame and sent the notification of
\* the loss. (The return of main, a second after its Close, ends the process.)
C20_CloseLeavesHandlers ==
    /\ [][(\E c \in Closers : CloseOf(c)) => inflight' = inflight]_vars
    /\ [][inflight' < inflight =>
             /\ inflight' = inflight - 1
             /\ obs'.kind = "frame"
             /\ obs'.parsed => (obs'.matchedCorpKill /\ ~obs'.isKill /\ SentCorpKill)]_vars

\* C20's case: a handler started before the first call of Close has returned, after
\* a call of Close returned, having sent the notification of the loss
C20_Witness ==
    /\ ~exited
    /\ obs.kind = "frame"
    /\ obs.afterClose
    /\ obs.parsed
    /\ Classification = "Loss"
    /\ Cardinality(SinkCalls("corpkill")) = 1

----------------------------------------------------------------------------
(* The enrichment and the composer on their own: GetKillDetails and CreateEmbed
   applied to frames, killmails and lookup outcomes drawn from small sets *)

\* The attackers of a killmail of ESI, each with a character, a corporation and a
\* ship of its own, the even ones in an alliance: every list of up to
\* MaxAttackers + 1 attackers, with every choice of final blow flags
EsiAttacker(i, fb) ==
    [AllianceID |-> IF i % 2 = 0 THEN 30 + i ELSE 0, CharacterID |-> 10 + i,
     CorporationID |-> 20 + i, FinalBlow |-> fb, ShipTypeID |-> 40 + i]

EsiAttackerLists ==
    {[i \in 1..Len(flags) |-> EsiAttacker(i, flags[i])] :
        flags \in SeqsUpTo(BOOLEAN, MaxAttackers + 1)}

\* The killmails of ESI: a victim in an alliance or in none, and the attackers
EsiKillMails ==
    {[SolarSystemID |-> 31,
      Victim |-> [AllianceID |-> alli, CorporationID |-> 1, CharacterID |-> 7,
                  ShipTypeID |-> 587],
      Attackers |-> atts] : alli \in {0, 2}, atts \in EsiAttackerLists}

\* The economic blocks of the frames: every field with a value of its own, amounts
\* on both sides of a million, and the flags
ISKAmounts == {0, 999999, 1000000, 1234567, 2500000, 12340000}

EnrichZKBs ==
    {[Hash |-> "h", FittedValue |-> 11, DroppedValue |-> 22, DestroyedValue |-> 33,
      TotalValue |-> total, Points |-> 7, NPC |-> flags[1], Solo |-> flags[2],
      Awox |-> awox] :
        total \in ISKAmounts, awox \in BOOLEAN,
        flags \in {<<FALSE, FALSE>>, <<TRUE, FALSE>>, <<FALSE, TRUE>>}}

\* A frame of a loss with the economic block zkb, killmail id and hash
EnrichFrame(id, hash, zkb) ==
    [valid |-> TRUE,
     zm |-> [KillmailID |-> id, SolarSystemID |-> 33, Victim |-> Vic(1, 0),
             Attackers |-> <<Att(3, 0, 6)>>, ZKB |-> [zkb EXCEPT !.Hash = hash]]]

\* The outcomes of the requests of one enrichment
EnrichEnv(killmail, fails) ==
    [infoResp |-> "ok", systemsResp |-> Ok(RefreshSystemsData), killmail |-> killmail,
     fails |-> fails, notifyResp |-> "ok"]

\* What is enriched: every killmail with every lookup answered; two killmails with
\* every set of failing lookups; every economic block, with and without killmail id
\* and hash, the killmail fetched or not; and a frame that does not parse
EnrichInputs ==
    {[raw |-> EnrichFrame(100, "h", BaseZKB),
      env |-> EnrichEnv([outcome |-> "ok", km |-> km], {})] : km \in EsiKillMails}
    \cup {[raw |-> EnrichFrame(100, "h", BaseZKB),
           env |-> EnrichEnv([outcome |-> "ok", km |-> km], fails)] :
              km \in {BaseKillMail, AllianceKillMail}, fails \in SUBSET LookupSlots}
    \cup {[raw |-> EnrichFrame(ids[1], ids[2], zkb),
           env |-> EnrichEnv([outcome |-> outcome, km |-> BaseKillMail], {})] :
              ids \in {<<100, "h">>, <<0, "h">>, <<100, "">>}, zkb \in EnrichZKBs,
              outcome \in {"ok", "status"}}
    \cup {[raw |-> [valid |-> FALSE, zm |-> ZeroZkillMail],
           env |-> EnrichEnv([outcome |-> "ok", km |-> BaseKillMail], {})]}

\* lines 413-414 of sendCorpKillMessage: NewKillDetails and GetKillDetails, on the
\* frame raw with the outcomes env
Enrich(raw, env) ==
    /\ phase = "listening" /\ obs.kind = "startup"
    /\ obs' = [kind |-> "enriched", raw |-> raw, env |-> env,
               kd |-> GetKillDetails(raw, env), again |-> <<>>, embeds |-> <<>>]
    /\ UNCHANGED <<raceVars, config, cacheVars, now, phase, connVars>>

\* the same frame is enriched once more, by a fresh KillDetails, ESI answering as
\* it did the first time
EnrichAgain ==
    /\ phase = "listening" /\ obs.kind = "enriched"
    /\ obs.again = <<>>
    /\ obs' = [obs EXCEPT !.again = <<GetKillDetails(obs.raw, obs.env)>>]
    /\ UNCHANGED <<raceVars, config, cacheVars, now, phase, connVars>>

\* lines 416-420 of sendCorpKillMessage: IsKill is set and CreateEmbed builds the
\* embed of the KillDetails
Compose(isKill) ==
    /\ phase = "listening" /\ obs.kind = "enriched"
    /\ obs.embeds = <<>>
    /\ obs' = [obs EXCEPT !.embeds =
                  <<[isKill |-> isKill,
                     embed |-> CreateEmbed(config, obs.kd.fkm, isKill, now)]>>]
    /\ UNCHANGED <<raceVars, config, cacheVars, now, phase, connVars>>

NextEnrich ==
    \/ StartupConn
    \/ Tick
    \/ \E input \in EnrichInputs : Enrich(input.raw, input.env)
    \/ EnrichAgain
    \/ \E isKill \in BOOLEAN : Compose(isKill)

SpecEnrich == InitConn /\ [][NextEnrich]_vars

\* a frame was enriched, and the FKM GetKillDetails left
Enriched == phase = "listening" /\ obs.kind = "enriched"

\* an embed was composed from the FKM
Composed == Enriched /\ obs.embeds # <<>>

----------------------------------------------------------------------------
(* The canonical record: C21, C22 *)

\* the final attacker fields of the FKM are those of attacker a
FinalIs(fkm, a) ==
    /\ fkm.FinalAttackerID = a.CharacterID
    /\ fkm.FinalAttackerCorpID = a.CorporationID
    /\ fkm.FinalAttackerAllianceID = a.AllianceID

\* C21: the final attacker of the record is the first attacker of its list that is
\* flagged final blow; when none is flagged, the first of the list; and when the
\* list is empty no final attacker field is set.
C21_FinalAttackerSelection ==
    Enriched =>
        /\ \A i \in 1..Len(obs.kd.fkm.Attackers) :
               (/\ obs.kd.fkm.Attackers[i].FinalBlow
                /\ \A j \in 1..(i - 1) : ~obs.kd.fkm.Attackers[j].FinalBlow) =>
                   FinalIs(obs.kd.fkm, obs.kd.fkm.Attackers[i])
        /\ (/\ obs.kd.fkm.Attackers # <<>>
            /\ \A i \in 1..Len(obs.kd.fkm.Attackers) :
                   ~obs.kd.fkm.Attackers[i].FinalBlow) =>
               FinalIs(obs.kd.fkm, obs.kd.fkm.Attackers[1])
        /\ obs.kd.fkm.Attackers = <<>> =>
               /\ FinalIs(obs.kd.fkm, ZeroAttacker)
               /\ obs.kd.fkm.FinalAttackerName = ""
               /\ obs.kd.fkm.FinalAttackerCorpName = ""
               /\ obs.kd.fkm.FinalAttackerAllianceName = ""
               /\ obs.kd.fkm.FinalAttackerShipName = ""

\* C21's case: of three attackers the second and the third are flagged, and the
\* second is the final attacker
C21_Witness ==
    /\ Enriched
    /\ Len(obs.kd.fkm.Attackers) = 3
    /\ ~obs.kd.fkm.Attackers[1].FinalBlow
    /\ obs.kd.fkm.Attackers[2].FinalBlow
    /\ obs.kd.fkm.Attackers[3].FinalBlow
    /\ obs.kd.fkm.FinalAttackerID = 12
    /\ obs.kd.fkm.FinalAttackerName = "character:12"

\* the field of the record that holds the name of a lookup
NameField(fkm, slot) ==
    CASE slot = "system" -> fkm.SystemName
      [] slot = "victimShip" -> fkm.VictimShipName
      [] slot = "finalChar" -> fkm.FinalAttackerName
      [] slot = "finalCorp" -> fkm.FinalAttackerCorpName
      [] slot = "finalAlli" -> fkm.FinalAttackerAllianceName
      [] slot = "finalShip" -> fkm.FinalAttackerShipName
      [] slot = "victimChar" -> fkm.VictimCharacterName
      [] slot = "victimCorp" -> fkm.VictimCorpName
      [] slot = "victimAlli" -> fkm.VictimAllianceName

\* the ship of the record's final attacker
FinalShipTypeID(fkm) ==
    IF \E i \in 1..Len(fkm.Attackers) : fkm.Attackers[i].CharacterID = fkm.FinalAttackerID
    THEN fkm.Attackers[CHOOSE i \in 1..Len(fkm.Attackers) :
                           fkm.Attackers[i].CharacterID = fkm.FinalAttackerID].ShipTypeID
    ELSE 0

\* the entity a lookup asks ESI about: its kind and the id the record holds
LookedUp(fkm, slot) ==
    CASE slot = "system" -> <<"system", fkm.SolarSystemID>>
      [] slot = "victimShip" -> <<"type", fkm.Victim.ShipTypeID>>
      [] slot = "finalChar" -> <<"character", fkm.FinalAttackerID>>
      [] slot = "finalCorp" -> <<"corporation", fkm.FinalAttackerCorpID>>
      [] slot = "finalAlli" -> <<"alliance", fkm.FinalAttackerAllianceID>>
      [] slot = "finalShip" -> <<"type", FinalShipTypeID(fkm)>>
      [] slot = "victimChar" -> <<"character", fkm.Victim.CharacterID>>
      [] slot = "victimCorp" -> <<"corporation", fkm.Victim.CorporationID>>
      [] slot = "victimAlli" -> <<"alliance", fkm.Victim.AllianceID>>

\* the killmail of the frame was fetched: the enrichment got to its name lookups
KillmailFetched ==
    /\ Enriched
    /\ obs.raw.valid /\ obs.raw.zm.KillmailID # 0 /\ obs.raw.zm.ZKB.Hash # ""
    /\ obs.env.killmail.outcome = "ok"

\* C22: the name lookups of one enrichment are independent: whichever of them fail,
\* the enrichment completes without an error, a failed lookup leaves its own field
\* blank, and every lookup that succeeds has its name stored in its own field.
C22_LookupsIndependent ==
    KillmailFetched =>
        /\ obs.kd.err = "nil"
        /\ \A slot \in LookupSlots :
               LookedUp(obs.kd.fkm, slot)[2] > 0 =>
                   NameField(obs.kd.fkm, slot) =
                       IF slot \in obs.env.fails
                       THEN ""
                       ELSE EsiName(LookedUp(obs.kd.fkm, slot)[1],
                                    LookedUp(obs.kd.fkm, slot)[2])

\* C22's case: of nine lookups issued, one whose error is checked and one whose
\* error is dropped fail, and the others have their names stored
C22_Witness ==
    /\ KillmailFetched
    /\ obs.env.fails = {"system", "finalCorp"}
    /\ \A slot \in LookupSlots : LookedUp(obs.kd.fkm, slot)[2] > 0
    /\ obs.kd.fkm.SystemName = "" /\ obs.kd.fkm.FinalAttackerCorpName = ""
    /\ obs.kd.fkm.FinalAttackerName = "character:5"
    /\ obs.kd.fkm.FinalAttackerShipName = "type:622"
    /\ obs.kd.fkm.VictimAllianceName = "alliance:2"

----------------------------------------------------------------------------
(* The enricher is for Loss and Kill only: C23 *)

\* C23: the killmail fetch and the name lookups are made only for a frame handled
\* as a Loss or a Kill: a frame handled as SystemMatch or None causes no request
\* to ESI, and sendCorpKillMessage is not called for it.
C23_EnrichOnlyLossOrKill ==
    (FrameHandled /\ Classification \in {"SystemMatch", "None"}) =>
        /\ EsiCalls(NameKinds \cup {"killmail"}) = {}
        /\ obs.corp = <<>>

\* C23's case: a chain alert was sent for a frame and ESI was not asked
C23_Witness ==
    /\ FrameHandled
    /\ Classification = "SystemMatch"
    /\ SinkCalls("chain") # {}
    /\ EsiCalls(NameKinds \cup {"killmail"}) = {}

----------------------------------------------------------------------------
(* Frames that do not parse: C24 *)

\* the handler of a frame that did not parse has returned
MalformedHandled == phase = "handled" /\ obs.kind = "frame" /\ ~obs.parsed

\* C24: a frame that does not parse is dropped with no effect: handling it sends
\* nothing to a webhook, makes no request and no refresh, leaves the lists and
\* both timestamps as they were, and the loop is back at reading frames after it.
C24_MalformedFrameDropped ==
    /\ [][(phase = "listening" /\ phase' = "handled" /\ ~obs'.parsed) =>
              /\ UNCHANGED cacheVars
              /\ obs'.calls = <<>>
              /\ ~obs'.refreshed
              /\ obs'.corp = <<>>]_vars
    /\ [][MalformedHandled => (phase' = "listening" /\ UNCHANGED cacheVars)]_vars
    /\ [](MalformedHandled => ENABLED HandlerReturn)

\* C24's case: a frame that does not parse was handled when the status message and
\* the refresh were both due
C24_Witness ==
    /\ MalformedHandled
    /\ MinutesSince(now, lastDiscordStatusTime) > config.DiscordStatusReportMins
    /\ MinutesSince(now, lastUpdateTime) > minToGetLatestSystems
    /\ systems # <<>>

----------------------------------------------------------------------------
(* The dispatch to the webhooks, with sends that fail and credentials that are
   missing: the handler on configurations that lack the id or the token of one
   channel, the webhook answering each send with success, a transport error or a
   status outside 200..299 *)

Channels == {"info", "chain", "corpkill"}

\* the configuration cfg without the id, or without the token, of one channel
WithoutCredential(cfg, channel, part) ==
    CASE channel = "info" /\ part = "id" -> [cfg EXCEPT !.DiscordInfoWebhookId = ""]
      [] channel = "info" /\ part = "token" -> [cfg EXCEPT !.DiscordInfoWebhookToken = ""]
      [] channel = "chain" /\ part = "id" -> [cfg EXCEPT !.DiscordChainkillWebhookId = ""]
      [] channel = "chain" /\ part = "token" ->
             [cfg EXCEPT !.DiscordChainkillWebhookToken = ""]
      [] channel = "corpkill" /\ part = "id" ->
             [cfg EXCEPT !.DiscordCorpkillWebhookId = ""]
      [] channel = "corpkill" /\ part = "token" ->
             [cfg EXCEPT !.DiscordCorpkillWebhookToken = ""]

DispatchConfigs ==
    {BaseConfig}
    \cup {WithoutCredential(BaseConfig, channel, part) :
             channel \in Channels, part \in {"id", "token"}}

\* what the webhook does with a POST
SinkResponses == {"ok", "neterr", "status"}

DispatchEnvs ==
    [infoResp : SinkResponses,
     systemsResp : {Failed("status"), Ok(RefreshSystemsData)},
     killmail : {[outcome |-> "ok", km |-> BaseKillMail]},
     fails : {{}},
     notifyResp : SinkResponses]

\* a loss, a kill, kills in systems of the map, and a loss without killmail id and
\* one without hash
DispatchFrames ==
    KillFrames \cup RefreshFrames
    \cup {EnrichFrame(0, "h", BaseZKB), EnrichFrame(100, "", BaseZKB)}

InitDispatch == InitOf(DispatchConfigs)

NextDispatch ==
    \/ Startup
    \/ Tick
    \/ \E raw \in DispatchFrames, env \in DispatchEnvs : HandleZKillMessage(raw, env)
    \/ HandlerReturn

SpecDispatch == InitDispatch /\ [][NextDispatch]_vars

\* the outcomes env, but with every send to a webhook accepted
Delivered(env) == [env EXCEPT !.infoResp = "ok", !.notifyResp = "ok"]

\* the sends of a sequence of requests
SinkSends(calls) == {i \in 1..Len(calls) : calls[i].api = "sink"}

\* C25: a dispatch attempts its send to the webhook once: when the send fails, by a
\* transport error or a status outside 200..299, it is not sent again, and the
\* handling ends as it does when the send is accepted: the same requests, the same
\* lists and timestamps, the same outcome.
C25_SendAttemptedOnce ==
    [][HandlesFrame =>
          /\ \A i, j \in SinkSends(obs'.calls) : obs'.calls[i] = obs'.calls[j] => i = j
          /\ \A channel \in {"chain", "corpkill"} : Cardinality(SinkCalls(channel)') <= 1
          /\ \E h \in {handleZKillMessage(config, Cache, obs'.raw, Delivered(obs'.env),
                                          now)} :
                 /\ Cache' = h.st
                 /\ obs' = [kind |-> "frame", env |-> obs'.env] @@ h.obs]_vars

\* C25's case: with every credential configured, the status message met a transport
\* error and the chain alert a status outside 200..299, each sent once
C25_Witness ==
    /\ FrameHandled
    /\ config = BaseConfig
    /\ obs.env.infoResp = "neterr" /\ obs.env.notifyResp = "status"
    /\ Cardinality(SinkCalls("info")) = 1
    /\ Cardinality(SinkCalls("chain")) = 1
    /\ lastDiscordStatusTime = now

\* the channels whose id or token the configuration lacks
Unconfigured == {channel \in Channels :
                    WebhookId(config, channel) = "" \/ WebhookToken(config, channel) = ""}

\* the channel a send of the fully configured program goes to
ChannelOf(call) ==
    CHOOSE channel \in Channels :
        call.webhook = <<WebhookId(BaseConfig, channel), WebhookToken(BaseConfig, channel)>>

\* the configuration with every credential in place
FullyConfigured(cfg) ==
    [cfg EXCEPT !.DiscordInfoWebhookId = BaseConfig.DiscordInfoWebhookId,
                !.DiscordInfoWebhookToken = BaseConfig.DiscordInfoWebhookToken,
                !.DiscordChainkillWebhookId = BaseConfig.DiscordChainkillWebhookId,
                !.DiscordChainkillWebhookToken = BaseConfig.DiscordChainkillWebhookToken,
                !.DiscordCorpkillWebhookId = BaseConfig.DiscordCorpkillWebhookId,
                !.DiscordCorpkillWebhookToken = BaseConfig.DiscordCorpkillWebhookToken]

\* the request is not a send to a channel the configuration lacks a credential of
ToConfigured(call) == call.api # "sink" \/ ChannelOf(call) \notin Unconfigured

\* C26: when the id or the token of a channel is missing, a dispatch to that channel
\* is skipped without a request, its error only logged: the handling makes the
\* requests it makes with every credential in place, but for the sends to that
\* channel, and leaves the same lists and timestamps.
C26_UnconfiguredChannelSkipped ==
    [][HandlesFrame =>
          /\ \A i \in SinkSends(obs'.calls) :
                 obs'.calls[i].webhook[1] # "" /\ obs'.calls[i].webhook[2] # ""
          /\ \E h \in {handleZKillMessage(FullyConfigured(config), Cache, obs'.raw,
                                          obs'.env, now)} :
                 /\ Cache' = h.st
                 /\ obs'.calls = SelectSeq(h.obs.calls, ToConfigured)]_vars

\* C26's case: the chain channel has no token, and a frame whose chain alert was
\* skipped had its status message sent
C26_Witness ==
    /\ FrameHandled
    /\ Unconfigured = {"chain"}
    /\ config.DiscordChainkillWebhookToken = ""
    /\ Classification = "SystemMatch"
    /\ Cardinality(SinkCalls("info")) = 1
    /\ SinkSends(obs.calls) = SinkCalls("info")

----------------------------------------------------------------------------
(* The embed: C27 *)

\* C27: the colour of the embed is the configured kill colour for a Kill and the
\* loss colour for a Loss, whatever the awox flag; its label is "Cowardly Awox"
\* when the awox flag of the record is set, and otherwise "Kill" or "Loss". The
\* colours configured are "#00FF00", which is 65280, and "#FF0000", 16711680.
C27_ColourAndLabel ==
    Composed =>
        /\ obs.embeds[1].embed.Color =
               IF obs.embeds[1].isKill THEN 65280 ELSE 16711680
        /\ obs.kd.fkm.Awox => obs.embeds[1].embed.Author.Name = "Cowardly Awox"
        /\ ~obs.kd.fkm.Awox =>
               obs.embeds[1].embed.Author.Name =
                   IF obs.embeds[1].isKill THEN "Kill" ELSE "Loss"

\* C27's case: the embed of a Kill whose awox flag is set has the kill colour and
\* the awox label
C27_Witness ==
    /\ Composed
    /\ obs.kd.fkm.Awox /\ obs.raw.zm.ZKB.Awox
    /\ obs.embeds[1].isKill
    /\ obs.embeds[1].embed.Color = 65280
    /\ obs.embeds[1].embed.Author.Name = "Cowardly Awox"

----------------------------------------------------------------------------
(* The economic block: C28 *)

\* the values and flags of the record are those of the economic block zkb
CarriesEconomicBlock(fkm, zkb) ==
    /\ fkm.TotalValue = zkb.TotalValue
    /\ fkm.DestroyedValue = zkb.DestroyedValue
    /\ fkm.DroppedValue = zkb.DroppedValue
    /\ fkm.FittedValue = zkb.FittedValue
    /\ fkm.Points = zkb.Points
    /\ fkm.NPC = zkb.NPC
    /\ fkm.Solo = zkb.Solo
    /\ fkm.Awox = zkb.Awox

\* C28: the total, destroyed, dropped and fitted values, the points and the NPC,
\* solo and awox flags of the record GetKillDetails leaves without an error are
\* those of the economic block of the frame, unchanged.
C28_EconomicBlockCarried ==
    (Enriched /\ obs.raw.valid /\ obs.kd.err = "nil") =>
        CarriesEconomicBlock(obs.kd.fkm, obs.raw.zm.ZKB)

----------------------------------------------------------------------------
(* Enriching twice: C29 *)

\* the frame was enriched a second time
EnrichedAgain == Enriched /\ obs.again # <<>>

----------------------------------------------------------------------------
(* The value of the footer: C30 *)

\* a whole amount of ISK in millions, rounded to hundredths and written with two
\* decimals: 2500000 is "2.50m"
TwoDecimalMillions(amount) ==
    ToString(((amount + 5000) \div 10000) \div 100) \o "."
        \o ToString((((amount + 5000) \div 10000) % 100) \div 10)
        \o ToString(((amount + 5000) \div 10000) % 10) \o "m"

\* C30: formatISKValue renders an amount below 1,000,000 as the fixed label, and
\* an amount of 1,000,000 or more as its millions rounded to two decimals and
\* written with two decimals, with or without the unit after it.
C30_ISKTwoDecimals ==
    Composed =>
        IF obs.kd.fkm.TotalValue < 1000000
        THEN obs.embeds[1].embed.Footer = "Value: <1 M ISK"
        ELSE obs.embeds[1].embed.Footer \in
                 {"Value: " \o TwoDecimalMillions(obs.kd.fkm.TotalValue),
                  "Value: " \o TwoDecimalMillions(obs.kd.fkm.TotalValue) \o " ISK"}

----------------------------------------------------------------------------
(* The title of the embed: C31 *)

\* line 448: the title, "<ship> destroyed in <system>"
TitleText(embed) == embed.Title.ship \o " destroyed in " \o embed.Title.system

\* the string t is found in the string s
HasSubstring(s, t) ==
    \E i \in 1..(Len(s) - Len(t) + 1) : SubSeq(s, i, i + Len(t) - 1) = t

\* C31: the title of the embed of a Loss whose victim ship has a name holds that
\* name and the formatted total value of the frame, as formatISKValue writes it or
\* with two decimals.
C31_TitleShipAndValue ==
    (Composed /\ ~obs.embeds[1].isKill /\ obs.kd.fkm.VictimShipName # "") =>
        /\ HasSubstring(TitleText(obs.embeds[1].embed), obs.kd.fkm.VictimShipName)
        /\ \/ HasSubstring(TitleText(obs.embeds[1].embed),
                           formatISKValue(obs.raw.zm.ZKB.TotalValue))
           \/ HasSubstring(TitleText(obs.embeds[1].embed),
                           TwoDecimalMillions(obs.raw.zm.ZKB.TotalValue))

----------------------------------------------------------------------------
(* The system step: C32 *)

\* the handling went on to the system step (line 235): no victim and no attacker
\* matched
ReachedSystemStep == FrameHandled /\ ~obs.matchedCorpKill

\* C32: when the handling reaches the system step no attacker of the frame is a
\* map character, so the skip of lines 267-269 is never taken: a frame that gets
\* there in a system of the list that is not ignored sends one chain alert.
C32_SuppressionUnreachable ==
    ReachedSystemStep =>
        /\ ~AttackerIsLocal(obs.raw.zm)
        /\ (/\ obs.raw.zm.SolarSystemID \in MonitoredSystemIds
            /\ ~Contains(config.IgnoreSystemIds, obs.raw.zm.SolarSystemID)) =>
               /\ obs.chain
               /\ Cardinality(SinkCalls("chain")) = 1

\* C32's case: with map characters known, a frame with attackers got to the system
\* step in a listed system and its chain alert was sent
C32_Witness ==
    /\ ReachedSystemStep
    /\ mapCharacters # <<>>
    /\ obs.raw.zm.Attackers # <<>>
    /\ obs.raw.zm.SolarSystemID \in MonitoredSystemIds
    /\ obs.chain

----------------------------------------------------------------------------
(* The map characters: C33 *)

\* C33: the map characters are written by StartListening alone: once it has run,
\* no handled frame, with or without a refresh of the systems, and no passing of
\* time changes the list.
C33_MapCharactersWrittenAtStartup ==
    [][phase # "new" => mapCharacters' = mapCharacters]_vars

\* C33's case: a frame was handled with a refresh that replaced the systems, and
\* the map characters are those of the startup
C33_Witness ==
    /\ FrameHandled
    /\ obs.refreshed /\ obs.refreshErr = "nil"
    /\ systems = newSystems(RefreshSystemsData)
    /\ mapCharacters = newChars(StartupCharactersData)

----------------------------------------------------------------------------
(* The time of the last refresh: C34 *)

\* C34: lastUpdateTime moves only when updateSystems succeeds, and then to the time
\* of the call: a refresh that fails leaves it as it was, and a frame handled while
\* more whole minutes than the threshold have passed since it attempts the refresh,
\* so the refresh is attempted again with every frame until one succeeds.
C34_FailedRefreshRetried ==
    /\ [][lastUpdateTime' # lastUpdateTime =>
              /\ HandlesFrame
              /\ obs'.refreshed /\ obs'.refreshErr = "nil"
              /\ lastUpdateTime' = now]_vars
    /\ [][HandlesFrame =>
              /\ (obs'.refreshed /\ obs'.refreshErr # "nil") =>
                     lastUpdateTime' = lastUpdateTime
              /\ MinutesSince(now, lastUpdateTime) > minToGetLatestSystems =>
                     obs'.refreshed]_vars

\* C34's case: a refresh was attempted and failed at the last tick of the clock, and
\* the last refresh is still that of the startup
C34_Witness ==
    /\ FrameHandled
    /\ obs.refreshed /\ obs.refreshErr # "nil"
    /\ now = MaxTime
    /\ lastUpdateTime = 0
    /\ MinutesSince(now, lastUpdateTime) > minToGetLatestSystems

----------------------------------------------------------------------------
(* The status message under concurrent handlers: C35 *)

\* the handlers that have sent the status message
StatusSenders == {h \in Racers : handlers[h].status}

\* C35: the status message is sent once for an interval that has passed: no two
\* handlers pass the check of line 151 against the same ck.lastDiscordStatusTime and
\* both send the message.
C35_StatusOncePerInterval ==
    \A h1, h2 \in StatusSenders :
        handlers[h1].statusSince = handlers[h2].statusSince => h1 = h2

----------------------------------------------------------------------------
(* Frames without killmail id or hash: C36 *)

\* a Kill or Loss was handled whose frame has killmail id 0 or no hash
HandledWithoutIdOrHash ==
    /\ FrameHandled /\ obs.matchedCorpKill
    /\ (obs.raw.zm.KillmailID = 0 \/ obs.raw.zm.ZKB.Hash = "")

\* C36: for a Kill or Loss whose frame has killmail id 0 or an empty hash,
\* GetKillDetails asks ESI nothing and returns no error, every name, value and flag
\* of the record is left unset, and the embed is still built, with the stand-in
\* names, and sent to the corp kill channel when that channel is configured.
C36_NoIdOrHashStillNotifies ==
    HandledWithoutIdOrHash =>
        /\ EsiCalls(NameKinds \cup {"killmail"}) = {}
        /\ obs.corp[1].kdErr = "nil"
        /\ \A slot \in LookupSlots : NameField(obs.corp[1].fkm, slot) = ""
        /\ CarriesEconomicBlock(obs.corp[1].fkm, ZeroZKB)
        /\ obs.corp[1].embed.Description.victimCharName = "UnknownVictim"
        /\ obs.corp[1].embed.Description.victimGroupName = "UnknownGroup"
        /\ obs.corp[1].embed.Description.victimShipName = "UnknownShip"
        /\ obs.corp[1].embed.Description.finalAttackerName = "UnknownAttacker"
        /\ obs.corp[1].embed.Description.attackerGroupName = "UnknownGroup"
        /\ obs.corp[1].embed.Description.finalAttackerShip = "UnknownShip"
        /\ "corpkill" \notin Unconfigured =>
               /\ Cardinality(SinkCalls("corpkill")) = 1
               /\ \A i \in SinkCalls("corpkill") :
                      obs.calls[i].Embeds = <<obs.corp[1].embed>>

\* C36's case: the embed of a Loss worth 2,500,000 whose frame has no hash was sent
\* with the stand-in names and the value below a million
C36_Witness ==
    /\ HandledWithoutIdOrHash
    /\ obs.raw.zm.ZKB.Hash = "" /\ obs.raw.zm.KillmailID = 100
    /\ obs.raw.zm.ZKB.TotalValue = 2500000
    /\ Cardinality(SinkCalls("corpkill")) = 1
    /\ obs.corp[1].embed.Title.ship = "UnknownShip"
    /\ obs.corp[1].embed.Footer = "Value: <1 M ISK"

----------------------------------------------------------------------------
(* The order of the attackers: the handler on a frame, and beside it on the frames
   that have the same attackers in every other order, on the same cache at the same
   time *)

\* the classification of what a handling did
ClassOf(o) ==
    IF o.matchedCorpKill THEN (IF o.isKill THEN "Kill" ELSE "Loss")
    ELSE IF o.chain THEN "SystemMatch"
    ELSE "None"

\* the ways to reorder n attackers
Reorderings(n) == {p \in [1..n -> 1..n] : \A i, j \in 1..n : p[i] = p[j] => i = j}

\* the frame raw with its attackers in the order p
Reordered(raw, p) ==
    [raw EXCEPT !.zm.Attackers = [i \in 1..Len(raw.zm.Attackers) |->
                                     raw.zm.Attackers[p[i]]]]

\* the frame raw is handled; reordered holds the classifications handleZKillMessage
\* gives the frame for the orders of its attackers
HandleReordered(raw, env) ==
    /\ phase = "listening"
    /\ \E h \in {handleZKillMessage(config, Cache, raw, env, now)} :
           /\ systems' = h.st.systems
           /\ mapCharacters' = h.st.mapCharacters
           /\ lastUpdateTime' = h.st.lastUpdateTime
           /\ lastDiscordStatusTime' = h.st.lastDiscordStatusTime
           /\ obs' = [kind |-> "frame", env |-> env,
                      reordered |->
                          {ClassOf(handleZKillMessage(config, Cache, Reordered(raw, p),
                                                      env, now).obs) :
                              p \in Reorderings(Len(raw.zm.Attackers))}] @@ h.obs
    /\ phase' = "handled"
    /\ UNCHANGED <<raceVars, config, now, connVars>>

\* The frames are handled at the time of the startup, when neither the status
\* message nor the refresh is due: the lists are those StartListening left
NextReorder ==
    \/ Startup
    \/ \E raw \in RawMessages \ {[valid |-> FALSE, zm |-> ZeroZkillMail]}, env \in Envs :
           HandleReordered(raw, env)
    \/ HandlerReturn

SpecReorder == Init /\ [][NextReorder]_vars

\* C37: the classification of a frame does not depend on the order of its
\* attackers: on the same watchlist, map characters, systems and ignore list, the
\* frame with its attackers in any order is classified as the frame is.
C37_ClassificationOrderFree ==
    FrameHandled => obs.reordered = {Classification}

\* C37's case: a Kill of two attackers of which only the second is on the watchlist
C37_Witness ==
    /\ FrameHandled
    /\ Classification = "Kill"
    /\ Len(obs.raw.zm.Attackers) = 2
    /\ ~AttackerMatches(obs.raw.zm.Attackers[1], config.InsightTrackedIds, mapCharacters)
    /\ AttackerMatches(obs.raw.zm.Attackers[2], config.InsightTrackedIds, mapCharacters)

----------------------------------------------------------------------------
(* The group names of the notification: C39 *)

\* the group the claim names for ids alli and corp, given the two names
GroupByPrecedence(alli, corp, alliName, corpName) ==
    IF alli > 0 THEN alliName
    ELSE IF corp > 0 THEN corpName
    ELSE "UnknownGroup"

\* the name lookups among the requests of the enrichment
NameLookups ==
    {i \in 1..Len(obs.kd.calls) : obs.kd.calls[i].kind # "killmail"}

\* C39: the group shown for the victim is the alliance name of the record when the
\* victim's alliance id is above zero, otherwise the corporation name when the
\* corporation id is above zero, otherwise "UnknownGroup", and likewise for the
\* final attacker; with every lookup answered these are the names ESI holds for
\* the ids of the killmail; and the enrichment issues no name lookup for an id
\* that is zero.
C39_GroupByPrecedence ==
    /\ Composed =>
        /\ obs.embeds[1].embed.Description.victimGroupName =
               GroupByPrecedence(obs.kd.fkm.Victim.AllianceID,
                                 obs.kd.fkm.Victim.CorporationID,
                                 obs.kd.fkm.VictimAllianceName,
                                 obs.kd.fkm.VictimCorpName)
        /\ obs.embeds[1].embed.Description.attackerGroupName =
               GroupByPrecedence(obs.kd.fkm.FinalAttackerAllianceID,
                                 obs.kd.fkm.FinalAttackerCorpID,
                                 obs.kd.fkm.FinalAttackerAllianceName,
                                 obs.kd.fkm.FinalAttackerCorpName)
    /\ Composed /\ KillmailFetched /\ obs.env.fails = {} =>
        /\ obs.embeds[1].embed.Description.victimGroupName =
               GroupByPrecedence(obs.env.killmail.km.Victim.AllianceID,
                                 obs.env.killmail.km.Victim.CorporationID,
                                 EsiName("alliance", obs.env.killmail.km.Victim.AllianceID),
                                 EsiName("corporation",
                                         obs.env.killmail.km.Victim.CorporationID))
        /\ obs.embeds[1].embed.Description.attackerGroupName =
               GroupByPrecedence(obs.kd.fkm.FinalAttackerAllianceID,
                                 obs.kd.fkm.FinalAttackerCorpID,
                                 EsiName("alliance", obs.kd.fkm.FinalAttackerAllianceID),
                                 EsiName("corporation", obs.kd.fkm.FinalAttackerCorpID))
    /\ Enriched => \A i \in NameLookups : obs.kd.calls[i].id > 0

\* C39's case: a victim in alliance 2 and a final attacker of corporation 21 in no
\* alliance; the embed shows the alliance of the one and the corporation of the
\* other, and ESI was not asked about an alliance of the attacker
C39_Witness ==
    /\ Composed /\ KillmailFetched /\ obs.env.fails = {}
    /\ obs.env.killmail.km.Victim.AllianceID = 2
    /\ obs.kd.fkm.FinalAttackerAllianceID = 0 /\ obs.kd.fkm.FinalAttackerCorpID = 21
    /\ obs.embeds[1].embed.Description.victimGroupName = "alliance:2"
    /\ obs.embeds[1].embed.Description.attackerGroupName = "corporation:21"
    /\ Cardinality({i \in NameLookups : obs.kd.calls[i].kind = "alliance"}) = 1

----------------------------------------------------------------------------
(* The startup and the connect loop: StartListening with fetches that fail, and the
   loop it starts *)

NextStart == Startup \/ Loop \/ Elapse

SpecStart == InitConn /\ [][NextStart]_vars

\* the goroutine StartListening starts is scheduled, and takes the mutex when it is
\* free
LiveSpecStart ==
    /\ SpecStart
    /\ WF_vars(LoopNewContext \/ LoopLock \/ LoopStoreCancel \/ LoopDial)

\* StartListening has made its two fetches
StartupFetched ==
    /\ obs.kind = "startup"
    /\ \E i, j \in 1..Len(obs.calls) :
           /\ i < j
           /\ obs.calls[i] = [api |-> "mapapi", kind |-> "systems"]
           /\ obs.calls[j] = [api |-> "mapapi", kind |-> "characters"]

\* the connect loop has begun an iteration
LoopBegun == lpc # "top" \/ dials > 0 \/ loopCtx # 0

\* C38: StartListening has made the fetch of the systems and then that of the map
\* characters, each with its outcome, before the connect loop takes its first
\* step, so before the first dial; and when either fetch failed, or both, the loop
\* starts all the same and comes to its first dial.
C38_StartupBeforeFirstDial ==
    /\ [][phase = "new" => ~LoopBegun']_vars
    /\ [][~LoopBegun /\ LoopBegun' => StartupFetched]_vars
    /\ (obs.kind = "startup" /\ (obs.systemsErr # "nil" \/ obs.charactersErr # "nil"))
           ~> (dials > 0)

\* C38's case: both fetches of the startup failed, and the loop is at its first dial
C38_Witness ==
    /\ StartupFetched
    /\ obs.systemsErr # "nil" /\ obs.charactersErr # "nil"
    /\ systems = <<>> /\ mapCharacters = <<>>
    /\ dials = 1 /\ lpc = "dialing"

====
